---- MODULE Spec2Model ----
(***************************************************************************)
(* Serial-over-Ethernet: the server's accept loop and session loop, its    *)
(* serial-to-network relay threads, and the bridge's relay loop, modelled  *)
(* from serial_server_0.0.53_LinWin.py and serial_bridge_0.0.70_LinWin.py. *)
(*                                                                         *)
(* A byte string is a sequence of fragments (TLA+ strings) whose           *)
(* concatenation it is: the delimiter bytes "_" and "#" are fragments of   *)
(* their own and the text between delimiters is cut into a few fragments.  *)
(* TCP may cut a stream between any two fragments.  Every literal the      *)
(* handlers search for is a sequence of whole fragments, and no stream of  *)
(* the model holds a literal across a fragment boundary, so a search for a *)
(* literal is a search for a run of fragments.  len() is the sum of the    *)
(* lengths of the fragments.                                               *)
(***************************************************************************)
EXTENDS Naturals, Sequences, FiniteSets, TLC

(* ---------------------------------------------------------------- bounds *)
MaxSend == 2
MaxSessions == 2
MaxDev == 1
\* how many recv calls return less than what is in flight
MaxCut == 1

(* ------------------------------------------------------------ byte strings *)
RECURSIVE ByteLen(_)
ByteLen(d) == IF d = <<>> THEN 0 ELSE Len(Head(d)) + ByteLen(Tail(d))

\* Python's `lit in data`
Contains(d, lit) ==
  \E i \in 1..(Len(d) + 1 - Len(lit)) : SubSeq(d, i, i + Len(lit) - 1) = lit

\* Python's data.find(lit) + 1, for a data that contains lit
FirstIndex(d, lit) ==
  CHOOSE i \in 1..(Len(d) + 1 - Len(lit)) :
    /\ SubSeq(d, i, i + Len(lit) - 1) = lit
    /\ \A j \in 1..(i - 1) : SubSeq(d, j, j + Len(lit) - 1) # lit

\* Python's data.split(sep)
RECURSIVE Split(_, _)
Split(d, sep) ==
  IF ~Contains(d, sep) THEN <<d>>
  ELSE LET i == FirstIndex(d, sep)
       IN  <<SubSeq(d, 1, i - 1)>> \o Split(SubSeq(d, i + Len(sep), Len(d)), sep)

\* the text before the first "#" (Python's s.split("#")[0])
UpToHash(d) == IF Contains(d, <<"#">>) THEN SubSeq(d, 1, FirstIndex(d, <<"#">>) - 1) ELSE d

HasFrag(d, frags) == \E i \in 1..Len(d) : d[i] \in frags

(* ------------------------------------------------------------ wire literals *)
OPEN  == <<"_", "_", "#">>
CLOSE == <<"#", "_", "_">>
Frame(body) == OPEN \o body \o CLOSE

ASK_CMD            == Frame(<<"ASK_COM_PARAMS">>)
DISCONNECT_CMD     == Frame(<<"DISCONNECT">>)
KEEPALIVE_CMD      == Frame(<<"KEEPALIVE">>)
GETVER_CMD         == Frame(<<"GET", "VER">>)
GET_KA_TIMEOUT_CMD == Frame(<<"GET_KA_TIMEOUT">>)
MY_KA_TIMEOUT_CMD  == OPEN \o <<"MY_KA_TIMEOUT_">>
BAD_PWD_MSG        == Frame(<<"BADPWD">>)
PWD_PREFIX         == OPEN \o <<"PWD_">>
COM_PARAMS_PREFIX  == OPEN \o <<"COM_PARAMS_">>

\* the fragments that hold the bytes "_VER_"
VerFrags == {"BR_VER_", "CL_VER_", "SRV_VER_"}

SRV_VER_MSG    == Frame(<<"SRV_VER_", "0.0.53">>)
SRV_KA_MSG     == Frame(<<"MY_KA_TIMEOUT_", "120">>)
SRV_PARAMS_MSG == Frame(<<"COM_PARAMS_", "/dev/ttyS0 9600 8N1N">>)
BR_VER_MSG     == Frame(<<"BR_VER_", "0.0.70">>)
CL_VER_MSG     == Frame(<<"CL_VER_", "0.0.56">>)
BR_PARAMS_MSG  == Frame(<<"COM_PARAMS_", "COM1 9600 8N1N">>)
PwdFrame(secret) == Frame(<<"PWD_">> \o secret)


\* what the peers of the model put on the wire
PayloadFrags == {"a", "aaaaaaaaaaaaaaaaaaaa"}
\* what the model's serial device produces
DeviceFrags == {"x"}

(* ------------------------------------------------------------------ state *)
VARIABLES
  args,                 \* [has_pwd, pwd, ctx]: --pwd and whether SSL is set up
  keep_running,         \* state.keep_running
  disconnect_requested, \* state.disconnect_requested
  client_active,        \* state.client_active
  total_sessions,       \* state.total_sessions
  session_stats,        \* state.session_stats: [in, out]
  client_type,          \* state.client_type
  pcMain,               \* where main() is
  conns,                \* the sessions whose accepted socket is open
  b_state,              \* b_state['authorized'] of each session's dict
  packet_buffer,        \* packet_buffer of the session loop
  relays,               \* the sessions whose serial_to_socket thread is alive
  c2s,                  \* bytes the peer has sent and the server has not read
  s2c,                  \* bytes the server has sent on the current connection
  serIn,                \* bytes written to the serial endpoint in this session
  peer,                 \* the connected peer: "none", "open", "closed", "reset"
  backlog,              \* peers connected to the listening socket, not accepted
  rcvd,                 \* what the session loop has read so far
  nsent,                \* number of sends of the peers so far
  ndev,                 \* number of reads of the relay threads that returned bytes
  endReason,            \* why the last session ended
  bridge,               \* where the bridge's run() is: "off", "run", "exit", "done"
  br_keep_running,      \* self.keep_running of the bridge
  serial_ready,         \* self.serial_ready of the bridge
  brPos,                \* how many fragments of s2c the bridge has read
  brSerOut,             \* bytes the bridge has written to its serial endpoint
  brSent,               \* bytes the bridge has read from its serial endpoint and sent
  nka,                  \* number of KEEPALIVE frames of the bridge so far
  nbdev,                \* number of reads of the bridge's serial endpoint that returned bytes
  ncut,                 \* number of recv calls that returned a part of what was in flight
  brArgs,               \* the bridge's [sec, pwd]: --secauto / --sec and --pwd
  pend,                 \* per relay thread: the counter update it is in the middle of
  client,               \* the client process: "off", "run", "done"
  clArgs,               \* the client's [plat, pwd]: sys.platform and --pwd
  cl_keep_running,      \* self.keep_running of the client
  clRecv,               \* the client's _receive_thread: "off", "run", "dead"
  clMain,               \* the client's main thread in _send_thread: "top", "read"
  clPos,                \* how many fragments of s2c the client has read
  nkey,                 \* number of keys typed at the client so far
  nclka,                \* number of KEEPALIVE frames of the client so far
  recv_count,           \* self.recv_count of the client
  cfgIn,                \* one key of one program: what the command line and the file give
  cfgOut,               \* the value the program's configuration has for that key
  stPc,                 \* where the server's main() is, from its start to its exit
  stIn,                 \* the command line, the file and the log files main() starts with
  stArgs,               \* args of main(), from load_hierarchical_config
  stLogs,               \* number of log files of the --log name that exist
  stTemps,              \* which of temp.crt and temp.key exist
  stFx,                 \* what main() has done to files, sockets and the serial endpoint
  stCode,               \* the exit code of the server
  brOpt,                \* the bridge's [namedpipe, keepalive]: --namedpipe given, --keepalive
  pipe_connected,       \* self.pipe_connected of the bridge
  out_count,            \* self.out_count of the bridge
  brLog,                \* what the bridge has logged about the link
  clOut                 \* what the client has written to sys.stdout

vars == <<args, keep_running, disconnect_requested, client_active, total_sessions,
          session_stats, client_type, pcMain, conns, b_state, packet_buffer, relays,
          c2s, s2c, serIn, peer, backlog, rcvd, nsent, ndev,
          endReason, bridge, br_keep_running, serial_ready, brPos, brSerOut,
          brSent, nka, nbdev, ncut, brArgs, pend, client, clArgs, cl_keep_running,
          clRecv, clMain, clPos, nkey, nclka, recv_count,
          cfgIn, cfgOut, stPc, stIn, stArgs, stLogs, stTemps, stFx, stCode,
          brOpt, pipe_connected, out_count, brLog, clOut>>

ioVars == <<brOpt, pipe_connected, out_count, brLog>>

brVars == <<bridge, br_keep_running, serial_ready, brPos, brSerOut, brSent,
            nka, nbdev, brArgs, ioVars>>

clVars == <<client, clArgs, cl_keep_running, clRecv, clMain, clPos, nkey, nclka,
            recv_count, clOut>>

srvVars == <<args, keep_running, disconnect_requested, client_active, total_sessions,
             session_stats, client_type, pcMain, conns, b_state, packet_buffer,
             relays, c2s, s2c, serIn, peer, backlog, rcvd, nsent, ndev, endReason>>

bootVars == <<cfgIn, cfgOut, stPc, stIn, stArgs, stLogs, stTemps, stFx, stCode>>

Sessions == 1..(MaxSessions + 1)

(* ------------------------------------------------- the session loop's body *)
\* `not args.pwd`
NoPwd(a) == ~a.has_pwd

\* received_pwd == args.pwd
PwdEquals(received, a) == a.has_pwd /\ received = a.pwd

\* decoded_str.split("__#PWD_")[1].split("#")[0]
ReceivedPwd(data) == UpToHash(Split(data, PWD_PREFIX)[2])

\* the for loop over decoded_str.split('__#'): each part naming a bridge or a client
RECURSIVE VerParts(_, _, _)
VerParts(parts, st, a) ==
  IF parts = <<>> THEN st
  ELSE LET part == Head(parts)
       IN  IF HasFrag(part, {"BR_VER_", "CL_VER_"})
           THEN LET ct == IF HasFrag(part, {"CL_VER_"}) THEN "CL" ELSE "BR"
                    snd == IF NoPwd(a) /\ ct = "BR"
                           THEN SRV_PARAMS_MSG \o ASK_CMD ELSE <<>>
                IN  VerParts(Tail(parts),
                             [st EXCEPT !.ctype = ct,
                                        !.auth = IF NoPwd(a) THEN TRUE ELSE @,
                                        !.send = @ \o snd], a)
           ELSE VerParts(Tail(parts), st, a)

VerStep(data, st, a) ==
  IF HasFrag(data, VerFrags) THEN VerParts(Split(data, OPEN), st, a) ELSE st

\* the replies to GETVER, GET_KA_TIMEOUT and ASK_COM_PARAMS
ReplyStep(data, st) ==
  [st EXCEPT !.send = @ \o (IF Contains(data, GETVER_CMD) THEN SRV_VER_MSG ELSE <<>>)
                        \o (IF Contains(data, GET_KA_TIMEOUT_CMD) THEN SRV_KA_MSG ELSE <<>>)
                        \o (IF Contains(data, ASK_CMD) THEN SRV_PARAMS_MSG ELSE <<>>)]

\* a variant of the password block that answers whatever the role
PwdStepAnyRole(data, st, a) ==
  IF ~Contains(data, PWD_PREFIX) THEN st
  ELSE IF PwdEquals(ReceivedPwd(data), a)
       THEN [st EXCEPT !.auth = TRUE, !.send = @ \o SRV_PARAMS_MSG \o ASK_CMD]
       ELSE [st EXCEPT !.send = @ \o BAD_PWD_MSG, !.brk = "badpwd"]

\* the `if b"__#PWD_" in data` block
PwdStep(data, st, a) ==
  IF ~Contains(data, PWD_PREFIX) THEN st
  ELSE IF PwdEquals(ReceivedPwd(data), a)
       THEN [st EXCEPT !.auth = TRUE,
                       !.send = @ \o (IF st.ctype = "BR" THEN SRV_PARAMS_MSG \o ASK_CMD
                                      ELSE <<>>)]
       ELSE [st EXCEPT !.send = @ \o BAD_PWD_MSG, !.brk = "badpwd"]

DisconnectStep(data, st) ==
  IF st.brk = "no" /\ Contains(data, DISCONNECT_CMD) THEN [st EXCEPT !.brk = "disconnect"]
  ELSE st

\* the branch for a data that holds "__#" and "#__"
ControlBranch(data, st, a) ==
  DisconnectStep(data, PwdStep(data, ReplyStep(data, VerStep(data, st, a)), a))

RawHoldLimit == 20
\* a variant that also holds a chunk of exactly that many bytes
ShortRawInclusive(data) == ByteLen(data) <= RawHoldLimit
\* len(data) < 20
ShortRaw(data) == ByteLen(data) < RawHoldLimit

\* the branch for a data without "__#"
RawBranch(data, st, a) ==
  IF ~st.auth /\ ~NoPwd(a)
  THEN IF ShortRaw(data) THEN [st EXCEPT !.buf = data]
       ELSE [st EXCEPT !.brk = "rejected"]
  ELSE [st EXCEPT !.wr = data, !.cnt = ByteLen(data)]

\* one pass of the session loop over the bytes recv returned
\* st = [auth, buf, ctype]; the result adds send, wr, cnt, brk
SrvHandle(chunk, st0, a) ==
  LET data == st0.buf \o chunk
      st   == [auth |-> st0.auth, buf |-> <<>>, ctype |-> st0.ctype,
               send |-> <<>>, wr |-> <<>>, cnt |-> 0, brk |-> "no"]
  IN  IF Contains(data, OPEN)
      THEN IF ~Contains(data, CLOSE) THEN [st EXCEPT !.buf = data]
           ELSE ControlBranch(data, st, a)
      ELSE RawBranch(data, st, a)


(* ------------------------------------------------------------ the server *)
GoodPwd == <<"s">>
\* a wrong password that begins with the right one
LongPwd == <<"s", "x">>

\* what a peer of the server may send in one sendall
PeerItems == {BR_VER_MSG, PwdFrame(GoodPwd), PwdFrame(LongPwd), DISCONNECT_CMD,
              <<"a">>, <<"aaaaaaaaaaaaaaaaaaaa">>}

\* SerialBridgeNode.__init__; the bridge has not been started
\* no counter update in progress
NoPend == [v |-> 0, f |-> "", cur |-> FALSE]

(* ------------------------------------------- configuration of the programs *)
\* a configuration value: Python's None, an int, a str or a bool
None == [t |-> "none", s |-> "", n |-> 0]
IntV(n) == [t |-> "int", s |-> "", n |-> n]
StrV(s) == [t |-> "str", s |-> s, n |-> 0]
BoolV(b) == [t |-> "bool", s |-> "", n |-> IF b THEN 1 ELSE 0]
\* an option that is not on the command line, a key that is not in the file
Absent == ""
Unset == [t |-> "unset", s |-> "", n |-> 0]

\* int(text) for the decimal texts used here; int() raises on any other text
IntOf == ("5000" :> 5000) @@ ("70000" :> 70000) @@ ("0123" :> 123) @@ ("1" :> 1)
         @@ ("120" :> 120)
TrueTexts == {"true", "1", "yes", "on"}
FalseTexts == {"false", "0", "no", "off"}
\* val.split('#')[0].strip()
CutComment(s) == IF s = "ab#cd" THEN "ab" ELSE s

Keys == {"port", "comport", "namedpipe", "keepalive", "secauto", "sec", "pwd", "log",
         "logmax", "showtransfer", "count"}
IntKeys == {"port", "keepalive", "logmax"}
BoolKeys == {"secauto", "count"}
\* the keys of a program: the client has no serial endpoint and no log
ProgKeys(prog) ==
  IF prog = "client" THEN {"port", "keepalive", "secauto", "sec", "pwd", "count"} ELSE Keys

\* DEFAULT_CONFIG of the server
SrvDefault(plat, key) ==
  CASE key = "comport" -> StrV(IF plat = "win32" THEN "COM1" ELSE "/dev/ttyS0")
    [] key = "keepalive" -> IntV(120)
    [] key = "logmax" -> IntV(10)
    [] key \in BoolKeys -> BoolV(FALSE)
    [] OTHER -> None

\* DEFAULT_CONFIG of the bridge
BrDefault(key) ==
  CASE key = "keepalive" -> IntV(30)
    [] key = "logmax" -> IntV(10)
    [] key \in BoolKeys -> BoolV(FALSE)
    [] OTHER -> None

\* the defaults of the client's config.get calls
ClDefault(key) ==
  CASE key = "keepalive" -> IntV(60)
    [] key \in BoolKeys -> BoolV(FALSE)
    [] OTHER -> None

\* what argparse stores for an option given on the command line: type=int,
\* action='store_true', or the text
CliValue(key, c) ==
  CASE key \in IntKeys -> IntV(IntOf[c])
    [] key \in BoolKeys -> BoolV(TRUE)
    [] OTHER -> StrV(c)

\* the value a key of the configuration file gets, by the type of the key
FileByType(key, val, cur) ==
  CASE key \in IntKeys -> IF val \in DOMAIN IntOf THEN IntV(IntOf[val]) ELSE cur
    [] key \in BoolKeys -> IF val \in TrueTexts THEN BoolV(TRUE)
                           ELSE IF val \in FalseTexts THEN BoolV(FALSE) ELSE cur
    [] OTHER -> StrV(val)

\* the server's loop over the keys of the file: showtransfer is skipped
SrvFile(key, f, cur) ==
  IF f = Absent \/ key = "showtransfer" THEN cur
  ELSE FileByType(key, CutComment(f), cur)

\* load_hierarchical_config of the server; its override loop: if value is not None
SrvEffective(plat, key, c, f) ==
  IF c = Absent THEN SrvFile(key, f, SrvDefault(plat, key)) ELSE CliValue(key, c)

\* the bridge's loop over the keys of the file
BrFile(key, f, cur) ==
  IF f = Absent THEN cur ELSE FileByType(key, CutComment(f), cur)

\* load_hierarchical_config of the bridge; its override loop: if value is not
\* None and value is not False
BrEffective(key, c, f) ==
  IF c = Absent THEN BrFile(key, f, BrDefault(key)) ELSE CliValue(key, c)

\* read_config_file of the client: the value is converted by its text, whatever
\* the key is
ClFile(f) ==
  IF f \in TrueTexts THEN BoolV(TRUE)
  ELSE IF f \in FalseTexts THEN BoolV(FALSE)
  ELSE IF f \in DOMAIN IntOf THEN IntV(IntOf[f])
  ELSE StrV(f)

\* parse_args of the client: the file's value is the default of the option
ClEffective(key, c, f) ==
  IF c # Absent THEN CliValue(key, c)
  ELSE IF f # Absent THEN ClFile(f) ELSE ClDefault(key)

\* the texts a command line gives to an option, and a file to a key
CliTexts(key) ==
  CASE key \in IntKeys -> {Absent, "5000", "70000"}
    [] key \in BoolKeys -> {Absent, "set"}
    [] OTHER -> {Absent, "COM5"}
FileTexts == {Absent, "5000", "0123", "on", "ab#cd", "hex,in"}

\* no configuration is followed key by key
CfgOff ==
  /\ cfgIn = [prog |-> "none", plat |-> "posix", key |-> "port", cli |-> Absent,
              file |-> Absent]
  /\ cfgOut = Unset


(* --------------------------------------------- the start of the server *)
MaxLogs == 1
\* the start of the server is not followed
StOff ==
  /\ stPc = "off"
  /\ stIn = [plat |-> "posix", cli |-> [k \in Keys |-> Absent],
             file |-> [k \in Keys |-> Absent], logs |-> 0]
  /\ stArgs = [k \in Keys |-> None]
  /\ stLogs = 0 /\ stTemps = {} /\ stFx = {} /\ stCode = 0

Exited == stPc \in {"rejected", "ssl_failed", "stopped"}

BootOff == CfgOff /\ StOff

\* SoEClient.__init__, before run()
ClInit ==
  /\ client = "off"
  /\ cl_keep_running = TRUE
  /\ clRecv = "off"
  /\ clMain = "top"
  /\ clPos = 0
  /\ nkey = 0
  /\ nclka = 0
  /\ recv_count = 0
  /\ clOut = <<>>

BrInit ==
  /\ bridge = "off"
  /\ br_keep_running = TRUE
  /\ serial_ready = FALSE
  /\ brPos = 0
  /\ brSerOut = <<>>
  /\ brSent = <<>>
  /\ nka = 0
  /\ nbdev = 0
  /\ brOpt = [namedpipe |-> FALSE, keepalive |-> 30]
  /\ pipe_connected = FALSE
  /\ out_count = 0
  /\ brLog = {}

SrvInit ==
  /\ args \in {[has_pwd |-> h, pwd |-> IF h THEN GoodPwd ELSE <<>>, ctx |-> c] :
                 h \in BOOLEAN, c \in BOOLEAN}
  /\ keep_running = TRUE
  /\ disconnect_requested = FALSE
  /\ client_active = FALSE
  /\ total_sessions = 0
  /\ session_stats = [in |-> 0, out |-> 0]
  /\ client_type = "??"
  /\ pcMain = "looptop"
  /\ conns = {}
  /\ b_state = [k \in Sessions |-> FALSE]
  /\ packet_buffer = <<>>
  /\ relays = {}
  /\ c2s = <<>>
  /\ s2c = <<>>
  /\ serIn = <<>>
  /\ peer = "none"
  /\ backlog = 0
  /\ rcvd = <<>>
  /\ nsent = 0
  /\ ndev = 0
  /\ endReason = "none"
  /\ ncut = 0
  /\ pend = [k \in Sessions |-> NoPend]

\* no bridge and no client
PeersOff ==
  /\ BrInit /\ brArgs = [sec |-> "off", pwd |-> <<>>]
  /\ ClInit /\ clArgs = [plat |-> "posix", pwd |-> <<>>]

Init == SrvInit /\ PeersOff /\ BootOff

\* a variant of the handler that always sets the stop flag
SigintStops ==
  /\ pcMain # "stopped"
  /\ keep_running' = FALSE
  /\ UNCHANGED <<args, disconnect_requested, client_active, total_sessions, session_stats,
                 client_type, pcMain, conns, b_state, packet_buffer, relays, c2s, s2c,
                 serIn, peer, backlog, rcvd, nsent, ndev, endReason>>
  /\ UNCHANGED <<brVars, ncut, pend, clVars, bootVars>>

\* handle_sigint
Sigint ==
  /\ pcMain # "stopped"
  /\ IF client_active
     THEN /\ disconnect_requested' = TRUE
          /\ UNCHANGED keep_running
     ELSE /\ keep_running' = FALSE
          /\ UNCHANGED disconnect_requested
  /\ UNCHANGED <<args, client_active, total_sessions, session_stats, client_type, pcMain,
                 conns, b_state, packet_buffer, relays, c2s, s2c, serIn, peer,
                 backlog, rcvd, nsent, ndev, endReason>>
  /\ UNCHANGED <<brVars, ncut, pend, clVars, bootVars>>

\* the head of the accept loop: `while state.keep_running ...` and the resets under it
LoopTop ==
  /\ pcMain = "looptop"
  /\ IF keep_running
     THEN /\ client_active' = FALSE
          /\ disconnect_requested' = FALSE
          /\ client_type' = "??"
          /\ session_stats' = [in |-> 0, out |-> 0]
          \* conn = None: the socket is dropped unless a relay thread holds it
          /\ conns' = conns \ ({total_sessions} \ relays)
          /\ pcMain' = "accept"
     ELSE /\ pcMain' = "stopped"
          /\ conns' = {}
          /\ UNCHANGED <<client_active, disconnect_requested, client_type, session_stats>>
  \* a counter update in progress belongs to the dict that line 900 has replaced
  /\ pend' = [k \in Sessions |-> IF keep_running THEN [pend[k] EXCEPT !.cur = FALSE] ELSE pend[k]]
  \* the record of a connection ends here, unless a bridge or a client still
  \* reads from it
  /\ s2c' = (IF bridge = "off" /\ client = "off" THEN <<>> ELSE s2c)
  /\ serIn' = <<>> /\ rcvd' = <<>>
  /\ UNCHANGED <<args, keep_running, total_sessions, b_state, packet_buffer, relays, c2s,
                 peer, backlog, nsent, ndev, endReason>>
  /\ UNCHANGED <<brVars, ncut, clVars, bootVars>>

\* listen_sock.accept() returns a connection. The stop flag is tested before the
\* call only: handle_sigint can run while accept() waits its 0.5 s, and the call
\* still returns a peer that connects in the rest of that time
Accept ==
  /\ pcMain = "accept"
  /\ backlog > 0
  /\ backlog' = backlog - 1
  /\ conns' = conns \cup {total_sessions + 1}
  /\ peer' = "open"
  /\ client_active' = TRUE
  /\ total_sessions' = total_sessions + 1
  /\ pcMain' = IF args.ctx THEN "tls" ELSE "hello"
  /\ endReason' = "none"
  /\ UNCHANGED <<args, keep_running, disconnect_requested, session_stats, client_type,
                 b_state, packet_buffer, relays, c2s, s2c, serIn, rcvd, nsent,
                 ndev>>
  /\ UNCHANGED <<brVars, ncut, pend, clVars, bootVars>>

\* the wait for a connection ends because the stop flag is set: `if not conn: break`
AcceptStop ==
  /\ pcMain = "accept"
  /\ ~keep_running
  /\ pcMain' = "stopped"
  /\ conns' = {}
  /\ UNCHANGED <<args, keep_running, disconnect_requested, client_active, total_sessions,
                 session_stats, client_type, b_state, packet_buffer, relays, c2s,
                 s2c, serIn, peer, backlog, rcvd, nsent, ndev, endReason>>
  /\ UNCHANGED <<brVars, ncut, pend, clVars, bootVars>>

\* ctx.wrap_socket succeeds
TlsOk ==
  /\ pcMain = "tls"
  /\ pcMain' = "hello"
  /\ UNCHANGED <<args, keep_running, disconnect_requested, client_active, total_sessions,
                 session_stats, client_type, conns, b_state, packet_buffer, relays, c2s,
                 s2c, serIn, peer, backlog, rcvd, nsent, ndev, endReason>>
  /\ UNCHANGED <<brVars, ncut, pend, clVars, bootVars>>

\* ctx.wrap_socket raises: conn.close(); continue
TlsFail ==
  /\ pcMain = "tls"
  /\ conns' = conns \ {total_sessions}
  /\ pcMain' = "looptop"
  /\ endReason' = "tls"
  /\ c2s' = <<>> /\ peer' = "none"
  /\ UNCHANGED <<args, keep_running, disconnect_requested, client_active, total_sessions,
                 session_stats, client_type, b_state, packet_buffer, relays,
                 s2c, serIn, backlog, rcvd, nsent, ndev>>
  /\ UNCHANGED <<brVars, ncut, pend, clVars, bootVars>>

\* a variant of the opening that sends the two requests in the other order
HelloSwapped ==
  /\ pcMain = "hello"
  /\ peer # "reset"
  /\ s2c' = s2c \o GET_KA_TIMEOUT_CMD \o GETVER_CMD
  /\ b_state' = [b_state EXCEPT ![total_sessions] = NoPwd(args)]
  /\ relays' = relays \cup {total_sessions}
  /\ packet_buffer' = <<>>
  /\ pcMain' = "session"
  /\ UNCHANGED <<args, keep_running, disconnect_requested, client_active, total_sessions,
                 session_stats, client_type, conns, c2s, serIn, peer, backlog,
                 rcvd, nsent, ndev, endReason>>
  /\ UNCHANGED <<brVars, ncut, pend, clVars, bootVars>>

\* a variant whose session takes over the flag of the session before it
HelloInherits ==
  /\ pcMain = "hello"
  /\ peer # "reset"
  /\ s2c' = s2c \o GETVER_CMD \o GET_KA_TIMEOUT_CMD
  /\ b_state' = [b_state EXCEPT ![total_sessions] =
                   IF total_sessions > 1 THEN b_state[total_sessions - 1]
                   ELSE NoPwd(args)]
  /\ relays' = relays \cup {total_sessions}
  /\ packet_buffer' = <<>>
  /\ pcMain' = "session"
  /\ UNCHANGED <<args, keep_running, disconnect_requested, client_active, total_sessions,
                 session_stats, client_type, conns, c2s, serIn, peer, backlog,
                 rcvd, nsent, ndev, endReason>>
  /\ UNCHANGED <<brVars, ncut, pend, clVars, bootVars>>

\* the opening sends, b_state, the relay thread and packet_buffer
Hello ==
  /\ pcMain = "hello"
  /\ peer # "reset"
  /\ s2c' = s2c \o GETVER_CMD \o GET_KA_TIMEOUT_CMD
  /\ b_state' = [b_state EXCEPT ![total_sessions] = NoPwd(args)]
  /\ relays' = relays \cup {total_sessions}
  /\ packet_buffer' = <<>>
  /\ pcMain' = "session"
  /\ UNCHANGED <<args, keep_running, disconnect_requested, client_active, total_sessions,
                 session_stats, client_type, conns, c2s, serIn, peer, backlog,
                 rcvd, nsent, ndev, endReason>>
  /\ UNCHANGED <<brVars, ncut, pend, clVars, bootVars>>

\* the opening sendall raises on a connection the peer has reset
HelloFail ==
  /\ pcMain = "hello"
  /\ peer = "reset"
  /\ pcMain' = "recover"
  /\ endReason' = "senderr"
  /\ UNCHANGED <<args, keep_running, disconnect_requested, client_active, total_sessions,
                 session_stats, client_type, conns, b_state, packet_buffer, relays, c2s,
                 s2c, serIn, peer, backlog, rcvd, nsent, ndev>>
  /\ UNCHANGED <<brVars, ncut, pend, clVars, bootVars>>


\* conn.recv returns the first n fragments in flight and the loop body handles them
SrvRecv ==
  /\ pcMain = "session"
  /\ keep_running /\ ~disconnect_requested
  /\ peer # "reset"
  /\ \E n \in 1..Len(c2s) :
       LET chunk == SubSeq(c2s, 1, n)
           r == SrvHandle(chunk, [auth |-> b_state[total_sessions],
                                  buf |-> packet_buffer, ctype |-> client_type], args)
       IN  /\ n = Len(c2s) \/ ncut < MaxCut
           /\ ncut' = IF n = Len(c2s) THEN ncut ELSE ncut + 1
           /\ c2s' = SubSeq(c2s, n + 1, Len(c2s))
           /\ rcvd' = rcvd \o chunk
           /\ b_state' = [b_state EXCEPT ![total_sessions] = r.auth]
           /\ packet_buffer' = r.buf
           /\ client_type' = r.ctype
           /\ s2c' = s2c \o r.send
           /\ serIn' = serIn \o r.wr
           /\ session_stats' = [session_stats EXCEPT !.in = @ + r.cnt]
           /\ pcMain' = IF r.brk = "no" THEN "session" ELSE "teardown"
           /\ endReason' = IF r.brk = "no" THEN endReason ELSE r.brk
  /\ UNCHANGED <<args, keep_running, disconnect_requested, client_active, total_sessions,
                 conns, relays, peer, backlog, nsent, ndev>>
  /\ UNCHANGED <<brVars, pend, clVars, bootVars>>

\* conn.recv returns b"": `if not data: break`
SrvRecvEof ==
  /\ pcMain = "session"
  /\ keep_running /\ ~disconnect_requested
  /\ peer = "closed" /\ c2s = <<>>
  /\ pcMain' = "teardown"
  /\ endReason' = "eof"
  /\ UNCHANGED <<args, keep_running, disconnect_requested, client_active, total_sessions,
                 session_stats, client_type, conns, b_state, packet_buffer, relays, c2s,
                 s2c, serIn, peer, backlog, rcvd, nsent, ndev>>
  /\ UNCHANGED <<brVars, ncut, pend, clVars, bootVars>>

\* conn.recv raises: `except: break`
SrvRecvErr ==
  /\ pcMain = "session"
  /\ keep_running /\ ~disconnect_requested
  /\ peer = "reset"
  /\ pcMain' = "teardown"
  /\ endReason' = "sockerr"
  /\ UNCHANGED <<args, keep_running, disconnect_requested, client_active, total_sessions,
                 session_stats, client_type, conns, b_state, packet_buffer, relays, c2s,
                 s2c, serIn, peer, backlog, rcvd, nsent, ndev>>
  /\ UNCHANGED <<brVars, ncut, pend, clVars, bootVars>>

\* the session loop sees disconnect_requested or the stop flag
SrvLoopExit ==
  /\ pcMain = "session"
  /\ ~keep_running \/ disconnect_requested
  /\ pcMain' = "teardown"
  /\ endReason' = "sigint"
  /\ UNCHANGED <<args, keep_running, disconnect_requested, client_active, total_sessions,
                 session_stats, client_type, conns, b_state, packet_buffer, relays, c2s,
                 s2c, serIn, peer, backlog, rcvd, nsent, ndev>>
  /\ UNCHANGED <<brVars, ncut, pend, clVars, bootVars>>

\* a variant of the end of a session that leaves the connection open
TeardownKeepsOpen ==
  /\ pcMain = "teardown"
  /\ s2c' = IF disconnect_requested /\ peer # "reset" THEN s2c \o DISCONNECT_CMD ELSE s2c
  /\ conns' = conns
  /\ client_active' = FALSE
  /\ pcMain' = "looptop"
  /\ c2s' = <<>> /\ peer' = "none"
  /\ UNCHANGED <<args, keep_running, disconnect_requested, total_sessions, session_stats,
                 client_type, b_state, packet_buffer, relays, serIn, backlog, rcvd, nsent, ndev, endReason>>
  /\ UNCHANGED <<brVars, ncut, pend, clVars, bootVars>>

\* after the session loop: DISCONNECT on a soft disconnect, conn.close()
Teardown ==
  /\ pcMain = "teardown"
  /\ s2c' = IF disconnect_requested /\ peer # "reset" THEN s2c \o DISCONNECT_CMD ELSE s2c
  /\ conns' = conns \ {total_sessions}
  /\ client_active' = FALSE
  /\ pcMain' = "looptop"
  /\ c2s' = <<>> /\ peer' = "none"
  /\ UNCHANGED <<args, keep_running, disconnect_requested, total_sessions, session_stats,
                 client_type, b_state, packet_buffer, relays, serIn, backlog, rcvd, nsent, ndev, endReason>>
  /\ UNCHANGED <<brVars, ncut, pend, clVars, bootVars>>

\* a variant of the recovery that leaves the outer loop
RecoverStops ==
  /\ pcMain = "recover"
  /\ pcMain' = "stopped"
  /\ backlog' = 0
  /\ relays' = {}
  /\ c2s' = <<>> /\ peer' = "none"
  /\ conns' = IF keep_running THEN conns ELSE {}
  /\ UNCHANGED <<args, keep_running, disconnect_requested, client_active, total_sessions,
                 session_stats, client_type, b_state, packet_buffer, s2c,
                 serIn, rcvd, nsent, ndev, endReason>>
  /\ UNCHANGED <<brVars, ncut, pend, clVars, bootVars>>

\* `except Exception` of the outer loop, its finally, and the next pass of
\* `while state.keep_running`: the serial endpoint and the listening socket are
\* closed and opened again
Recover ==
  /\ pcMain = "recover"
  /\ pcMain' = IF keep_running THEN "looptop" ELSE "stopped"
  /\ backlog' = 0
  /\ relays' = {}
  /\ c2s' = <<>> /\ peer' = "none"
  /\ conns' = IF keep_running THEN conns ELSE {}
  /\ UNCHANGED <<args, keep_running, disconnect_requested, client_active, total_sessions,
                 session_stats, client_type, b_state, packet_buffer, s2c,
                 serIn, rcvd, nsent, ndev, endReason>>
  /\ UNCHANGED <<brVars, ncut, pend, clVars, bootVars>>

\* one pass of serial_to_socket of session k: the thread ends on the flags, or it
\* reads what the device has written to the serial endpoint, counts it and sends it
Relay ==
  \E k \in relays :
    \/ /\ ~keep_running \/ disconnect_requested
       /\ relays' = relays \ {k}
       /\ UNCHANGED <<session_stats, ndev, s2c>>
    \/ /\ keep_running /\ ~disconnect_requested
       /\ b_state[k]
       /\ ndev < MaxDev
       /\ ndev' = ndev + 1
       /\ \E f \in DeviceFrags :
            /\ session_stats' = [session_stats EXCEPT !.out = @ + ByteLen(<<f>>)]
            /\ IF k = total_sessions /\ k \in conns /\ peer # "reset"
               THEN s2c' = Append(s2c, f) /\ UNCHANGED relays
               ELSE relays' = relays \ {k} /\ UNCHANGED s2c
  /\ UNCHANGED <<args, keep_running, disconnect_requested, client_active, total_sessions,
                 client_type, pcMain, conns, b_state, packet_buffer, c2s, serIn, peer, backlog, rcvd, nsent, endReason>>
  /\ UNCHANGED <<brVars, ncut, pend, clVars, bootVars>>

\* serial_to_socket with `state.session_stats["out"] += len(data)` in its two
\* steps. First step: the bytes are read and the counter's value is loaded
\* from the dict that state.session_stats names at that moment.
MaxRaceDev == 3

RelayLoad ==
  /\ keep_running /\ ~disconnect_requested
  /\ ndev < MaxRaceDev
  /\ \E k \in relays : \E f \in DeviceFrags :
       /\ b_state[k]
       /\ pend[k] = NoPend
       /\ pend' = [pend EXCEPT ![k] = [v |-> session_stats.out, f |-> f, cur |-> TRUE]]
  /\ ndev' = ndev + 1
  /\ UNCHANGED <<args, keep_running, disconnect_requested, client_active, total_sessions,
                 session_stats, client_type, pcMain, conns, b_state, packet_buffer, relays,
                 c2s, s2c, serIn, peer, backlog, rcvd, nsent, endReason>>
  /\ UNCHANGED <<brVars, ncut, clVars, bootVars>>

\* second step: the sum is stored into that dict, then the bytes are sent; the
\* thread ends when sendall raises
RelayStore ==
  /\ \E k \in relays :
       /\ pend[k] # NoPend
       /\ session_stats' = IF pend[k].cur
                           THEN [session_stats EXCEPT !.out = pend[k].v + ByteLen(<<pend[k].f>>)]
                           ELSE session_stats
       /\ IF k = total_sessions /\ k \in conns /\ peer # "reset"
          THEN s2c' = Append(s2c, pend[k].f) /\ UNCHANGED relays
          ELSE relays' = relays \ {k} /\ UNCHANGED s2c
       /\ pend' = [pend EXCEPT ![k] = NoPend]
  /\ UNCHANGED <<args, keep_running, disconnect_requested, client_active, total_sessions,
                 client_type, pcMain, conns, b_state, packet_buffer, c2s, serIn, peer,
                 backlog, rcvd, nsent, ndev, endReason>>
  /\ UNCHANGED <<brVars, ncut, clVars, bootVars>>

(* ------------------------------------------------------- the environment *)
\* a peer connects to the listening socket
PeerConnect ==
  /\ pcMain \notin {"stopped", "recover"}
  /\ total_sessions + backlog < MaxSessions
  /\ backlog' = backlog + 1
  /\ UNCHANGED <<args, keep_running, disconnect_requested, client_active, total_sessions,
                 session_stats, client_type, pcMain, conns, b_state, packet_buffer, relays,
                 c2s, s2c, serIn, peer, rcvd, nsent, ndev, endReason>>
  /\ UNCHANGED <<brVars, ncut, pend, clVars, bootVars>>

\* the accepted peer sends one item
PeerSend ==
  /\ peer = "open" /\ total_sessions \in conns
  /\ nsent < MaxSend
  /\ \E item \in PeerItems : c2s' = c2s \o item
  /\ nsent' = nsent + 1
  /\ UNCHANGED <<args, keep_running, disconnect_requested, client_active, total_sessions,
                 session_stats, client_type, pcMain, conns, b_state, packet_buffer, relays,
                 s2c, serIn, peer, backlog, rcvd, ndev, endReason>>
  /\ UNCHANGED <<brVars, ncut, pend, clVars, bootVars>>

\* the accepted peer closes its end; the server reads what was sent before the
\* close first, so the close is taken when nothing is in flight
PeerClose ==
  /\ peer = "open" /\ total_sessions \in conns /\ c2s = <<>>
  /\ peer' = "closed"
  /\ UNCHANGED <<args, keep_running, disconnect_requested, client_active, total_sessions,
                 session_stats, client_type, pcMain, conns, b_state, packet_buffer, relays,
                 c2s, s2c, serIn, backlog, rcvd, nsent, ndev, endReason>>
  /\ UNCHANGED <<brVars, ncut, pend, clVars, bootVars>>

\* the accepted peer resets the connection (bytes in flight would be discarded:
\* the reset is taken when nothing is in flight)
PeerReset ==
  /\ peer = "open" /\ total_sessions \in conns /\ c2s = <<>>
  /\ peer' = "reset"
  /\ UNCHANGED <<args, keep_running, disconnect_requested, client_active, total_sessions,
                 session_stats, client_type, pcMain, conns, b_state, packet_buffer, relays,
                 c2s, s2c, serIn, backlog, rcvd, nsent, ndev, endReason>>
  /\ UNCHANGED <<brVars, ncut, pend, clVars, bootVars>>

(* ------------------------------------------------------------ the bridge *)
MaxKa == 1
MaxBrDev == 1
MaxFault == 1

\* what the device on the bridge's serial endpoint writes
BrDeviceFrags == {"y"}

\* re.sub(b"__#[^#]*#__", b"", data): every "__#", bytes other than "#", "#__"
\* is cut out, scanning from the left
RECURSIVE StripFrames(_)
StripFrames(d) ==
  IF d = <<>> THEN <<>>
  ELSE IF Len(d) >= 3 /\ SubSeq(d, 1, 3) = OPEN
       THEN LET rest == SubSeq(d, 4, Len(d))
                j == FirstIndex(rest, <<"#">>)
            IN  IF /\ Contains(rest, <<"#">>)
                   /\ j + 2 <= Len(rest)
                   /\ SubSeq(rest, j, j + 2) = CLOSE
                THEN StripFrames(SubSeq(rest, j + 3, Len(rest)))
                ELSE <<Head(d)>> \o StripFrames(Tail(d))
       ELSE <<Head(d)>> \o StripFrames(Tail(d))

\* a variant that asks again whenever it is given the server's COM_PARAMS
BrControlAsksBack(data, ready) ==
  LET rdy == ready \/ Contains(data, COM_PARAMS_PREFIX)
      rest == StripFrames(data)
  IN  [ready |-> rdy,
       send  |-> (IF HasFrag(data, {"SRV_VER_"}) THEN BR_PARAMS_MSG ELSE <<>>)
                 \o (IF Contains(data, GETVER_CMD) THEN BR_VER_MSG
                     ELSE IF Contains(data, ASK_CMD) THEN BR_PARAMS_MSG ELSE <<>>)
                 \o (IF Contains(data, COM_PARAMS_PREFIX) THEN ASK_CMD ELSE <<>>),
       wr    |-> IF rdy THEN rest ELSE <<>>,
       stop  |-> "no"]

\* the `if b"__#" in data` block of run(), for a data without DISCONNECT and BADPWD
BrControl(data, ready) ==
  LET rdy == ready \/ Contains(data, COM_PARAMS_PREFIX)
      rest == StripFrames(data)
  IN  [ready |-> rdy,
       send  |-> (IF HasFrag(data, {"SRV_VER_"}) THEN BR_PARAMS_MSG ELSE <<>>)
                 \o (IF Contains(data, GETVER_CMD) THEN BR_VER_MSG
                     ELSE IF Contains(data, ASK_CMD) THEN BR_PARAMS_MSG ELSE <<>>),
       wr    |-> IF rdy THEN rest ELSE <<>>,
       stop  |-> "no"]

\* what run() does with the bytes one recv returned
BrHandle(data, ready) ==
  IF Contains(data, DISCONNECT_CMD)
  THEN [ready |-> ready, send |-> <<>>, wr |-> <<>>, stop |-> "disconnect"]
  ELSE IF Contains(data, OPEN)
       THEN IF Contains(data, BAD_PWD_MSG)
            THEN [ready |-> ready, send |-> <<>>, wr |-> <<>>, stop |-> "badpwd"]
            ELSE BrControl(data, ready)
       ELSE [ready |-> ready, send |-> <<>>, wr |-> IF ready THEN data ELSE <<>>,
             stop |-> "no"]

\* the `if MY_KA_TIMEOUT_CMD in data` block: the interval is parsed with int(),
\* which raises on a text that is no number (the except passes), and compared
\* with the bridge's own --keepalive
KaLog(data, own) ==
  IF ~Contains(data, MY_KA_TIMEOUT_CMD) THEN {}
  ELSE LET txt == UpToHash(Split(data, MY_KA_TIMEOUT_CMD)[2])
       IN  IF Len(txt) = 1 /\ txt[1] \in DOMAIN IntOf
           THEN IF IntOf[txt[1]] > own THEN {"KA_OK"} ELSE {"KA_RISK"}
           ELSE {}

\* the log lines of one pass over data
BrLogOf(data, r, own) ==
  IF r.stop = "no" /\ Contains(data, OPEN) THEN KaLog(data, own) ELSE {}

\* what the bridge logs when an exception ends a pass of the main loop
FaultLogs == {"net_error", "write_error", "pipe_broken", "pipe_error"}

\* the server's end of the bridge's connection is open (or not accepted yet)
BrLinkUp == backlog > 0 \/ (total_sessions > 0 /\ total_sessions \in conns)

\* sendall of the bridge: bytes sent after the server closed are lost
BrSendAll(bytes) == IF BrLinkUp THEN c2s \o bytes ELSE c2s

\* the frames run() sends once the connection is made: the password goes out
\* only `if self.is_sec and self.args.pwd`
BrOpening(a) ==
  BR_VER_MSG \o (IF a.sec # "off" /\ a.pwd # <<>> THEN PwdFrame(a.pwd) ELSE <<>>)
             \o GETVER_CMD \o GET_KA_TIMEOUT_CMD \o ASK_CMD

\* run() up to the main loop: the serial endpoint is opened and the connection
\* is made; over plain TCP the opening frames follow at once, with --secauto or
\* --sec wrap_socket waits for the server's handshake first
BrConnect ==
  /\ bridge = "off"
  /\ pcMain = "accept" /\ keep_running /\ total_sessions = 0 /\ backlog = 0
  /\ backlog' = 1
  /\ IF brArgs.sec = "off"
     THEN c2s' = BrOpening(brArgs) /\ bridge' = "run"
     ELSE c2s' = c2s /\ bridge' = "tls"
  /\ UNCHANGED <<args, keep_running, disconnect_requested, client_active, total_sessions,
                 session_stats, client_type, pcMain, conns, b_state, packet_buffer, relays,
                 s2c, serIn, peer, rcvd, nsent, ndev, endReason>>
  /\ UNCHANGED <<br_keep_running, serial_ready, brPos, brSerOut, brSent, nka,
                 nbdev, ncut>>
  /\ UNCHANGED <<brArgs, pend, clVars, bootVars, ioVars>>

\* wrap_socket returns (the server has done its side of the handshake): is_sec
\* is set and the opening frames are sent
BrTlsDone ==
  /\ bridge = "tls"
  /\ pcMain \in {"hello", "session"} /\ total_sessions \in conns
  /\ c2s' = c2s \o BrOpening(brArgs)
  /\ bridge' = "run"
  /\ UNCHANGED <<args, keep_running, disconnect_requested, client_active, total_sessions,
                 session_stats, client_type, pcMain, conns, b_state, packet_buffer, relays,
                 s2c, serIn, peer, backlog, rcvd, nsent, ndev, endReason>>
  /\ UNCHANGED <<br_keep_running, serial_ready, brPos, brSerOut, brSent, nka,
                 nbdev, ncut>>
  /\ UNCHANGED <<brArgs, pend, clVars, bootVars, ioVars>>

\* the network half of one pass of the main loop: recv returns n fragments. The
\* stripped data goes to the serial endpoint `if self.serial_ready and data`: to
\* the named pipe only while a pipe client is connected, to the serial port
\* otherwise; it is counted `if self.pipe_connected or not use_named_pipe`.
\* out is how the write ends: "ok", or the exception it raises
BrPass(out) ==
  /\ bridge = "run" /\ br_keep_running
  /\ \E n \in 1..(Len(s2c) - brPos) :
       LET data == SubSeq(s2c, brPos + 1, brPos + n)
           r == BrHandle(data, serial_ready)
           open == ~brOpt.namedpipe \/ pipe_connected
           written == IF open /\ out = "ok" THEN r.wr ELSE <<>>
           counted == IF open /\ out \in {"ok", "pipe_error"} THEN r.wr ELSE <<>>
       IN  /\ brPos + n = Len(s2c) \/ ncut < MaxCut
           /\ out # "ok" => /\ r.wr # <<>> /\ open
                             /\ brOpt.namedpipe = (out # "write_error")
           /\ ncut' = IF brPos + n = Len(s2c) THEN ncut ELSE ncut + 1
           /\ brPos' = brPos + n
           /\ serial_ready' = r.ready
           /\ c2s' = BrSendAll(r.send)
           /\ brSerOut' = brSerOut \o written
           /\ out_count' = out_count + ByteLen(counted)
           /\ pipe_connected' = (pipe_connected /\ out # "pipe_broken")
           /\ brLog' = brLog \cup BrLogOf(data, r, brOpt.keepalive)
                              \cup (IF out = "ok" THEN {} ELSE {out})
           /\ br_keep_running' = (r.stop # "disconnect")
           /\ bridge' = IF r.stop = "no" THEN "run" ELSE "exit"
  /\ UNCHANGED <<args, keep_running, disconnect_requested, client_active, total_sessions,
                 session_stats, client_type, pcMain, conns, b_state, packet_buffer, relays,
                 s2c, serIn, peer, backlog, rcvd, nsent, ndev, endReason>>
  /\ UNCHANGED <<brSent, nka, nbdev, brOpt>>
  /\ UNCHANGED <<brArgs, pend, clVars, bootVars>>

BrRecv == BrPass("ok")

\* a pass whose write to the serial endpoint raises: ser_obj.write raises (the
\* `except Exception` of the pass logs it with --debug), WriteFile raises
\* ERROR_NO_DATA or ERROR_BROKEN_PIPE (the pipe client is taken as gone), or
\* WriteFile raises another error (nothing is done about it)
BrWriteFault ==
  /\ Cardinality(brLog \cap FaultLogs) < MaxFault
  /\ \E out \in {"write_error", "pipe_broken", "pipe_error"} : BrPass(out)

\* select, recv or sendall raises in a pass of the main loop: the `except
\* Exception` of the pass logs it with --debug and the loop goes on
BrSockError ==
  /\ bridge = "run" /\ br_keep_running
  /\ Cardinality(brLog \cap FaultLogs) < MaxFault
  /\ brLog' = brLog \cup {"net_error"}
  /\ UNCHANGED <<srvVars, ncut, pend, clVars, bootVars>>
  /\ UNCHANGED <<bridge, br_keep_running, serial_ready, brPos, brSerOut, brSent, nka,
                 nbdev, brArgs, brOpt, pipe_connected, out_count>>

\* the serial half of a pass with --namedpipe: ConnectNamedPipe has completed,
\* a pipe client is connected
BrPipeConnect ==
  /\ bridge = "run" /\ br_keep_running
  /\ brOpt.namedpipe /\ ~pipe_connected
  /\ pipe_connected' = TRUE
  /\ UNCHANGED <<srvVars, ncut, pend, clVars, bootVars>>
  /\ UNCHANGED <<bridge, br_keep_running, serial_ready, brPos, brSerOut, brSent, nka,
                 nbdev, brArgs, brOpt, out_count, brLog>>

\* recv returns b"": the server has closed the connection
BrRecvEof ==
  /\ bridge = "run" /\ br_keep_running
  /\ brPos = Len(s2c)
  /\ total_sessions > 0 /\ total_sessions \notin conns
  /\ br_keep_running' = FALSE
  /\ bridge' = "exit"
  /\ UNCHANGED <<args, keep_running, disconnect_requested, client_active, total_sessions,
                 session_stats, client_type, pcMain, conns, b_state, packet_buffer, relays,
                 c2s, s2c, serIn, peer, backlog, rcvd, nsent, ndev, endReason>>
  /\ UNCHANGED <<serial_ready, brPos, brSerOut, brSent, nka, nbdev, ncut>>
  /\ UNCHANGED <<brArgs, pend, clVars, bootVars, ioVars>>

\* the serial half of one pass of the main loop: what waits in the endpoint is
\* read and sent
BrPump ==
  /\ bridge = "run" /\ br_keep_running
  /\ ~brOpt.namedpipe \/ pipe_connected
  /\ nbdev < MaxBrDev
  /\ nbdev' = nbdev + 1
  /\ \E f \in BrDeviceFrags :
       /\ c2s' = BrSendAll(<<f>>)
       /\ brSent' = IF BrLinkUp THEN Append(brSent, f) ELSE brSent
  /\ UNCHANGED <<args, keep_running, disconnect_requested, client_active, total_sessions,
                 session_stats, client_type, pcMain, conns, b_state, packet_buffer, relays,
                 s2c, serIn, peer, backlog, rcvd, nsent, ndev, endReason>>
  /\ UNCHANGED <<bridge, br_keep_running, serial_ready, brPos, brSerOut, nka, ncut>>
  /\ UNCHANGED <<brArgs, pend, clVars, bootVars, ioVars>>

\* one pass of _keepalive_loop
BrKeepalive ==
  /\ bridge = "run" /\ br_keep_running
  /\ nka < MaxKa
  /\ nka' = nka + 1
  /\ c2s' = BrSendAll(KEEPALIVE_CMD)
  /\ UNCHANGED <<args, keep_running, disconnect_requested, client_active, total_sessions,
                 session_stats, client_type, pcMain, conns, b_state, packet_buffer, relays,
                 s2c, serIn, peer, backlog, rcvd, nsent, ndev, endReason>>
  /\ UNCHANGED <<bridge, br_keep_running, serial_ready, brPos, brSerOut, brSent, nbdev, ncut>>
  /\ UNCHANGED <<brArgs, pend, clVars, bootVars, ioVars>>

\* cleanup(): the serial endpoint and the socket are closed
BrCleanup ==
  /\ bridge = "exit"
  /\ bridge' = "done"
  /\ peer' = IF peer = "open" THEN "closed" ELSE peer
  /\ UNCHANGED <<args, keep_running, disconnect_requested, client_active, total_sessions,
                 session_stats, client_type, pcMain, conns, b_state, packet_buffer, relays,
                 c2s, s2c, serIn, backlog, rcvd, nsent, ndev, endReason>>
  /\ UNCHANGED <<br_keep_running, serial_ready, brPos, brSerOut, brSent, nka,
                 nbdev, ncut>>
  /\ UNCHANGED <<brArgs, pend, clVars, bootVars, ioVars>>

(* ------------------------------------------------------------ the client *)
MaxKey == 1

\* what the user types: a character, or Ctrl-C
ClKeys == {"a", "^C"}

CL_KA_MSG == Frame(<<"MY_KA_TIMEOUT_", "60">>)

\* the frames run() sends once the connection is made
ClOpening(a) ==
  CL_VER_MSG \o (IF a.pwd # <<>> THEN PwdFrame(a.pwd) ELSE <<>>) \o GETVER_CMD \o ASK_CMD

\* sendall of the client: bytes sent after the server closed are lost
ClSendAll(bytes) == IF BrLinkUp THEN c2s \o bytes ELSE c2s

\* what _receive_thread does with the bytes one recv returned: the replies, and
\* whether shutdown() is called
ClHandle(data) ==
  [send |-> (IF Contains(data, GETVER_CMD) THEN CL_VER_MSG ELSE <<>>)
            \o (IF Contains(data, GET_KA_TIMEOUT_CMD) THEN CL_KA_MSG ELSE <<>>),
   stop |-> Contains(data, BAD_PWD_MSG) \/ Contains(data, DISCONNECT_CMD)]

\* a line feed, and a byte that is no UTF-8 text (0xFF)
LF == "\n"
BadByte == "F"

\* re.sub(r'__#.*?#__', '', text): from each "__#" up to the next "#__", if no
\* line feed is between them ('.' matches none), scanning from the left
RECURSIVE ClStrip(_)
ClStrip(d) ==
  IF d = <<>> THEN <<>>
  ELSE IF Len(d) >= 3 /\ SubSeq(d, 1, 3) = OPEN
       THEN LET rest == SubSeq(d, 4, Len(d))
                j == FirstIndex(rest, CLOSE)
            IN  IF Contains(rest, CLOSE) /\ ~HasFrag(SubSeq(rest, 1, j - 1), {LF})
                THEN ClStrip(SubSeq(rest, j + 3, Len(rest)))
                ELSE <<Head(d)>> \o ClStrip(Tail(d))
       ELSE <<Head(d)>> \o ClStrip(Tail(d))

\* what _receive_thread writes to sys.stdout for the bytes one recv returned: a
\* data with "__#" is decoded with errors='ignore', its frames are cut out, and
\* what is left is written unless strip() leaves nothing of it; what is written
\* is decoded with errors='replace', which makes U+FFFD ("?") of a byte that is
\* no text
ClWrite(data) ==
  LET text == IF Contains(data, OPEN)
              THEN ClStrip(SelectSeq(data, LAMBDA f : f # BadByte))
              ELSE data
      blank == \A i \in 1..Len(text) : text[i] = LF
  IN  IF Contains(data, OPEN) /\ blank THEN <<>>
      ELSE [i \in 1..Len(text) |-> IF text[i] = BadByte THEN "?" ELSE text[i]]

\* run() up to _send_thread(), over plain TCP: the connection is made, the
\* opening frames are sent and the threads are started
ClConnect ==
  /\ client = "off"
  /\ pcMain = "accept" /\ keep_running /\ total_sessions = 0 /\ backlog = 0
  /\ backlog' = 1
  /\ c2s' = ClOpening(clArgs)
  /\ client' = "run"
  /\ clRecv' = "run"
  /\ UNCHANGED <<args, keep_running, disconnect_requested, client_active, total_sessions,
                 session_stats, client_type, pcMain, conns, b_state, packet_buffer, relays,
                 s2c, serIn, peer, rcvd, nsent, ndev, endReason>>
  /\ UNCHANGED <<brVars, ncut, pend, clArgs, cl_keep_running, clMain, clPos, nkey, nclka>>
  /\ UNCHANGED <<recv_count, clOut, bootVars>>

\* one pass of _receive_thread: recv returns n fragments. shutdown() called in
\* this thread sets keep_running, sends DISCONNECT, closes the socket, and its
\* sys.exit(0) ends this thread only
ClRecv ==
  /\ client = "run" /\ clRecv = "run" /\ cl_keep_running
  /\ \E n \in 1..(Len(s2c) - clPos) :
       LET data == SubSeq(s2c, clPos + 1, clPos + n)
           r == ClHandle(data)
       IN  /\ clPos + n = Len(s2c) \/ ncut < MaxCut
           /\ ncut' = IF clPos + n = Len(s2c) THEN ncut ELSE ncut + 1
           /\ clPos' = clPos + n
           /\ recv_count' = recv_count + ByteLen(data)
           /\ clOut' = IF r.stop THEN clOut ELSE clOut \o ClWrite(data)
           /\ UNCHANGED bootVars
           /\ IF r.stop
              THEN /\ c2s' = ClSendAll(r.send \o DISCONNECT_CMD)
                   /\ cl_keep_running' = FALSE
                   /\ clRecv' = "dead"
                   /\ peer' = IF peer = "open" THEN "closed" ELSE peer
              ELSE /\ c2s' = ClSendAll(r.send)
                   /\ UNCHANGED <<cl_keep_running, clRecv, peer>>
  /\ UNCHANGED <<args, keep_running, disconnect_requested, client_active, total_sessions,
                 session_stats, client_type, pcMain, conns, b_state, packet_buffer, relays,
                 s2c, serIn, backlog, rcvd, nsent, ndev, endReason>>
  /\ UNCHANGED <<brVars, pend, client, clArgs, clMain, nkey, nclka>>

\* recv returns b"": the loop is left and shutdown() is called in this thread
ClRecvEof ==
  /\ client = "run" /\ clRecv = "run" /\ cl_keep_running
  /\ clPos = Len(s2c)
  /\ total_sessions > 0 /\ total_sessions \notin conns
  /\ cl_keep_running' = FALSE
  /\ clRecv' = "dead"
  /\ UNCHANGED <<args, keep_running, disconnect_requested, client_active, total_sessions,
                 session_stats, client_type, pcMain, conns, b_state, packet_buffer, relays,
                 c2s, s2c, serIn, peer, backlog, rcvd, nsent, ndev, endReason>>
  /\ UNCHANGED <<brVars, ncut, pend, client, clArgs, clMain, clPos, nkey, nclka>>
  /\ UNCHANGED <<recv_count, clOut, bootVars>>

\* _send_thread, not on Windows: `while self.keep_running` is passed and the
\* main thread blocks in sys.stdin.read(1)
ClEnterRead ==
  /\ client = "run" /\ clMain = "top"
  /\ clArgs.plat = "posix"
  /\ cl_keep_running
  /\ clMain' = "read"
  /\ UNCHANGED <<args, keep_running, disconnect_requested, client_active, total_sessions,
                 session_stats, client_type, pcMain, conns, b_state, packet_buffer, relays,
                 c2s, s2c, serIn, peer, backlog, rcvd, nsent, ndev, endReason>>
  /\ UNCHANGED <<brVars, ncut, pend, client, clArgs, cl_keep_running, clRecv, clPos, nkey, nclka>>
  /\ UNCHANGED <<recv_count, clOut, bootVars>>

\* _send_thread finds keep_running false at the head of its loop: run() returns
\* and the process ends, its daemon threads and its socket with it
ClLoopExit ==
  /\ client = "run" /\ clMain = "top"
  /\ ~cl_keep_running
  /\ client' = "done"
  /\ clRecv' = "dead"
  /\ peer' = IF peer = "open" THEN "closed" ELSE peer
  /\ UNCHANGED <<args, keep_running, disconnect_requested, client_active, total_sessions,
                 session_stats, client_type, pcMain, conns, b_state, packet_buffer, relays,
                 c2s, s2c, serIn, backlog, rcvd, nsent, ndev, endReason>>
  /\ UNCHANGED <<brVars, ncut, pend, clArgs, cl_keep_running, clMain, clPos, nkey, nclka>>
  /\ UNCHANGED <<recv_count, clOut, bootVars>>

\* a key arrives at the main thread. Ctrl-C calls shutdown() there: DISCONNECT
\* is sent, the socket closed, and sys.exit(0) ends the process. Any other
\* character is sent; on a socket that shutdown() has closed sendall raises,
\* run() calls shutdown() and the process ends.
ClKey ==
  /\ client = "run"
  /\ nkey < MaxKey
  /\ IF clArgs.plat = "posix" THEN clMain = "read" ELSE cl_keep_running
  /\ nkey' = nkey + 1
  /\ \E ch \in ClKeys :
       IF ch = "^C" \/ ~cl_keep_running
       THEN /\ c2s' = IF cl_keep_running THEN ClSendAll(DISCONNECT_CMD) ELSE c2s
            /\ cl_keep_running' = FALSE
            /\ client' = "done"
            /\ clRecv' = "dead"
            /\ peer' = IF peer = "open" THEN "closed" ELSE peer
            /\ UNCHANGED clMain
       ELSE /\ c2s' = ClSendAll(<<ch>>)
            /\ clMain' = "top"
            /\ UNCHANGED <<cl_keep_running, client, clRecv, peer>>
  /\ UNCHANGED <<args, keep_running, disconnect_requested, client_active, total_sessions,
                 session_stats, client_type, pcMain, conns, b_state, packet_buffer, relays,
                 s2c, serIn, backlog, rcvd, nsent, ndev, endReason>>
  /\ UNCHANGED <<brVars, ncut, pend, clArgs, clPos, nclka>>
  /\ UNCHANGED <<recv_count, clOut, bootVars>>

\* one pass of _keepalive_thread
ClKeepalive ==
  /\ client = "run" /\ cl_keep_running
  /\ nclka < MaxKa
  /\ nclka' = nclka + 1
  /\ c2s' = ClSendAll(KEEPALIVE_CMD)
  /\ UNCHANGED <<args, keep_running, disconnect_requested, client_active, total_sessions,
                 session_stats, client_type, pcMain, conns, b_state, packet_buffer, relays,
                 s2c, serIn, peer, backlog, rcvd, nsent, ndev, endReason>>
  /\ UNCHANGED <<brVars, ncut, pend, client, clArgs, cl_keep_running, clRecv, clMain, clPos, nkey>>
  /\ UNCHANGED <<recv_count, clOut, bootVars>>

Main ==
  \/ LoopTop \/ Accept \/ AcceptStop \/ TlsOk \/ TlsFail \/ Hello \/ HelloFail
  \/ SrvRecv \/ SrvRecvEof \/ SrvRecvErr \/ SrvLoopExit \/ Teardown \/ Recover

Next ==
  \/ Main
  \/ Relay
  \/ Sigint
  \/ PeerConnect \/ PeerSend \/ PeerClose \/ PeerReset

Spec == Init /\ [][Next]_vars


\* the main thread is never starved: a step of main() that waits for nothing
\* outside the process (the loop heads, the opening sends, the end of a session,
\* the recovery) is taken once it can be
MainSteps ==
  \/ LoopTop \/ AcceptStop \/ Hello \/ HelloFail \/ SrvLoopExit \/ Teardown \/ Recover

FairSpec == Spec /\ WF_vars(MainSteps)

\* a relay thread polls the flags every few milliseconds: it is not starved
\* either once the stop flag is set
StopSpec == FairSpec /\ WF_vars(~keep_running /\ Relay)

(* ------------------------------------------- a bridge and a server together *)
\* a server without --pwd and without SSL, and one bridge that connects to it
BridgeInit ==
  /\ Init
  /\ ~args.has_pwd /\ ~args.ctx

BridgeNext ==
  \/ LoopTop \/ Accept \/ AcceptStop \/ Hello
  \/ SrvRecv \/ SrvLoopExit \/ Teardown
  \/ Relay
  \/ Sigint
  \/ BrConnect \/ BrRecv \/ BrRecvEof \/ BrPump \/ BrKeepalive \/ BrCleanup

BridgeSpec == BridgeInit /\ [][BridgeNext]_vars

(* ------------------------------------------ the bridge's connect sequence *)
\* a bridge in each security mode, with and without --pwd (validate_args
\* refuses --secauto and --sec without --pwd), and a server in the same mode
ConnectInit ==
  /\ SrvInit /\ BrInit
  /\ ClInit /\ clArgs = [plat |-> "posix", pwd |-> <<>>]
  /\ BootOff
  /\ brArgs \in {[sec |-> m, pwd |-> p] : m \in {"off", "auto", "custom"},
                                          p \in {<<>>, GoodPwd}}
  /\ brArgs.sec # "off" => brArgs.pwd # <<>>
  /\ args.ctx = (brArgs.sec # "off")

ConnectNext ==
  \/ LoopTop \/ Accept \/ TlsOk \/ Hello \/ SrvRecv \/ Teardown
  \/ BrConnect \/ BrTlsDone \/ BrRecv \/ BrRecvEof \/ BrPump \/ BrCleanup

ConnectSpec == ConnectInit /\ [][ConnectNext]_vars

(* ------------------------------------------------ two relay threads alive *)
\* a server without --pwd and without SSL whose peers connect and close; the
\* counter update of the relay threads is taken in its two steps
RaceInit ==
  /\ Init
  /\ ~args.has_pwd /\ ~args.ctx

RaceNext ==
  \/ LoopTop \/ Accept \/ Hello \/ SrvRecvEof \/ Teardown
  \/ RelayLoad \/ RelayStore
  \/ PeerConnect \/ PeerClose

RaceSpec == RaceInit /\ [][RaceNext]_vars

(* ------------------------------------------- sessions that the peer ends *)
\* a server without --pwd and without SSL whose peers connect, send and close;
\* no SIGINT arrives
StaleNext ==
  \/ LoopTop \/ Accept \/ Hello \/ SrvRecv \/ SrvRecvEof \/ Teardown
  \/ Relay
  \/ PeerConnect \/ PeerSend \/ PeerClose

StaleSpec == RaceInit /\ [][StaleNext]_vars

(* ------------------------------------------- a client and a server together *)
\* a server without SSL and one client, on either platform, that connects to it
\* with the server's password
ClientInit ==
  /\ SrvInit /\ ~args.ctx
  /\ BrInit /\ brArgs = [sec |-> "off", pwd |-> <<>>]
  /\ ClInit /\ clArgs \in {[plat |-> pl, pwd |-> args.pwd] : pl \in {"posix", "win32"}}
  /\ BootOff

ClientNext ==
  \/ LoopTop \/ Accept \/ AcceptStop \/ Hello
  \/ SrvRecv \/ SrvRecvEof \/ SrvLoopExit \/ Teardown
  \/ Sigint
  \/ ClConnect \/ ClRecv \/ ClRecvEof \/ ClEnterRead \/ ClLoopExit \/ ClKey \/ ClKeepalive

ClientSpec == ClientInit /\ [][ClientNext]_vars

\* the client's main thread is never starved either: the head of its loop is
\* taken once it can be; nothing makes the user type
ClientFairSpec == ClientSpec /\ WF_vars(MainSteps) /\ WF_vars(ClEnterRead \/ ClLoopExit)

(* ------------------------------------------- the session loop on a stream *)
MaxItems == 3

ParseItems == {<<"A">>, GETVER_CMD, KEEPALIVE_CMD, PwdFrame(GoodPwd), DISCONNECT_CMD,
               GET_KA_TIMEOUT_CMD, ASK_CMD, BR_VER_MSG, CL_VER_MSG}

RECURSIVE Concat(_)
Concat(ss) == IF ss = <<>> THEN <<>> ELSE Head(ss) \o Concat(Tail(ss))

\* payload A, B, C around a GETVER and a KEEPALIVE frame
S4Stream == <<"A">> \o GETVER_CMD \o <<"B">> \o KEEPALIVE_CMD \o <<"C">>

ParseStreams ==
  {Concat(ss) : ss \in UNION {[1..n -> ParseItems] : n \in 1..MaxItems}} \cup {S4Stream}

HelloBytes == GETVER_CMD \o GET_KA_TIMEOUT_CMD

\* a session that has just entered its loop; the peer has sent a whole stream and
\* closed its end
SessionStart(streams) ==
  /\ args \in {[has_pwd |-> h, pwd |-> IF h THEN GoodPwd ELSE <<>>, ctx |-> FALSE] :
                 h \in BOOLEAN}
  /\ keep_running = TRUE
  /\ disconnect_requested = FALSE
  /\ client_active = TRUE
  /\ total_sessions = 1
  /\ session_stats = [in |-> 0, out |-> 0]
  /\ client_type = "??"
  /\ pcMain = "session"
  /\ conns = {1}
  /\ b_state = [k \in Sessions |-> k = 1 /\ NoPwd(args)]
  /\ packet_buffer = <<>>
  /\ relays = {1}
  /\ c2s \in streams
  /\ s2c = HelloBytes
  /\ serIn = <<>>
  /\ peer = "closed"
  /\ backlog = 0
  /\ rcvd = <<>>
  /\ nsent = 0
  /\ ndev = 0
  /\ endReason = "none"
  /\ ncut = 0
  /\ pend = [k \in Sessions |-> NoPend]
  /\ PeersOff /\ BootOff

ParseInit == SessionStart(ParseStreams)

ParseNext == SrvRecv \/ SrvRecvEof

ParseSpec == ParseInit /\ [][ParseNext]_vars

(* ------------------------------------------------ what the client shows *)
\* what the server sends to a client in a session: answers, bytes of the serial
\* device (text, a line feed, a byte that is no text) and DISCONNECT
ClItems == {SRV_VER_MSG, <<"x">>, <<LF>>, <<BadByte>>, DISCONNECT_CMD}

\* a client whose threads run, in a session of a server without --pwd that has
\* read the opening frames and has sent a whole stream
ShowInit ==
  /\ args = [has_pwd |-> FALSE, pwd |-> <<>>, ctx |-> FALSE]
  /\ keep_running = TRUE
  /\ disconnect_requested = FALSE
  /\ client_active = TRUE
  /\ total_sessions = 1
  /\ session_stats = [in |-> 0, out |-> 0]
  /\ client_type = "CL"
  /\ pcMain = "session"
  /\ conns = {1}
  /\ b_state = [k \in Sessions |-> k = 1]
  /\ packet_buffer = <<>>
  /\ relays = {1}
  /\ c2s = <<>>
  /\ s2c \in {Concat(ss) : ss \in UNION {[1..n -> ClItems] : n \in 1..MaxItems}}
  /\ serIn = <<>>
  /\ peer = "none"
  /\ backlog = 0
  /\ rcvd = ClOpening([plat |-> "posix", pwd |-> <<>>])
  /\ nsent = 0
  /\ ndev = 0
  /\ endReason = "none"
  /\ ncut = 0
  /\ pend = [k \in Sessions |-> NoPend]
  /\ BrInit /\ brArgs = [sec |-> "off", pwd |-> <<>>]
  /\ client = "run"
  /\ clArgs \in {[plat |-> pl, pwd |-> <<>>] : pl \in {"posix", "win32"}}
  /\ cl_keep_running = TRUE
  /\ clRecv = "run"
  /\ clMain = "top"
  /\ clPos = 0
  /\ nkey = 0
  /\ nclka = 0
  /\ recv_count = 0
  /\ clOut = <<>>
  /\ BootOff

ShowNext == ClRecv \/ ClEnterRead \/ ClLoopExit \/ ClKeepalive

ShowSpec == ShowInit /\ [][ShowNext]_vars

(* ------------------------------------- the bridge's endpoint and its faults *)
\* what the server sends to a bridge in a session: its answers, payload and
\* DISCONNECT
IoItems == {SRV_KA_MSG, SRV_PARAMS_MSG, <<"p">>, <<"q">>, DISCONNECT_CMD}

\* a bridge in its main loop, on a serial port or on a named pipe without a pipe
\* client yet, with a --keepalive below, at and above the server's; the server
\* without --pwd has read the opening frames and has sent a whole stream
BrIoInit ==
  /\ args = [has_pwd |-> FALSE, pwd |-> <<>>, ctx |-> FALSE]
  /\ keep_running = TRUE
  /\ disconnect_requested = FALSE
  /\ client_active = TRUE
  /\ total_sessions = 1
  /\ session_stats = [in |-> 0, out |-> 0]
  /\ client_type = "BR"
  /\ pcMain = "session"
  /\ conns = {1}
  /\ b_state = [k \in Sessions |-> k = 1]
  /\ packet_buffer = <<>>
  /\ relays = {1}
  /\ c2s = <<>>
  /\ s2c \in {Concat(ss) : ss \in UNION {[1..n -> IoItems] : n \in 1..MaxItems}}
  /\ serIn = <<>>
  /\ peer = "none"
  /\ backlog = 0
  /\ rcvd = BrOpening([sec |-> "off", pwd |-> <<>>])
  /\ nsent = 0
  /\ ndev = 0
  /\ endReason = "none"
  /\ ncut = 0
  /\ pend = [k \in Sessions |-> NoPend]
  /\ bridge = "run"
  /\ br_keep_running = TRUE
  /\ serial_ready = FALSE
  /\ brPos = 0
  /\ brSerOut = <<>>
  /\ brSent = <<>>
  /\ nka = 0
  /\ nbdev = 0
  /\ brArgs = [sec |-> "off", pwd |-> <<>>]
  /\ brOpt \in {[namedpipe |-> np, keepalive |-> ka] :
                  np \in BOOLEAN, ka \in {30, 120, 300}}
  /\ pipe_connected = FALSE
  /\ out_count = 0
  /\ brLog = {}
  /\ ClInit /\ clArgs = [plat |-> "posix", pwd |-> <<>>]
  /\ BootOff

BrIoNext ==
  \/ BrRecv \/ BrWriteFault \/ BrSockError \/ BrPipeConnect \/ BrPump \/ BrCleanup

BrIoSpec == BrIoInit /\ [][BrIoNext]_vars

(* ------------------------------------------- a frame that is never closed *)
\* 640 payload octets
Bulk ==
  LET b20 == "aaaaaaaaaaaaaaaaaaaa"
      b80 == b20 \o b20 \o b20 \o b20
      b320 == b80 \o b80 \o b80 \o b80
  IN  b320 \o b320

HoldStreams ==
  {Concat(ss) : ss \in UNION {[1..n -> {OPEN, CLOSE, <<Bulk>>, <<"a">>, GETVER_CMD}] :
                                n \in 1..MaxItems}}

\* a session that has just entered its loop; the peer has sent openings,
\* closings and long runs of payload
HoldInit == SessionStart(HoldStreams)

HoldSpec == HoldInit /\ [][ParseNext]_vars

(* ------------------------------------ the programs read their configuration *)
\* load_hierarchical_config of the server, for one key
SrvLoadConfig ==
  /\ cfgIn.prog = "server" /\ cfgOut = Unset
  /\ cfgOut' = SrvEffective(cfgIn.plat, cfgIn.key, cfgIn.cli, cfgIn.file)
  /\ UNCHANGED <<cfgIn, stPc, stIn, stArgs, stLogs, stTemps, stFx, stCode>>
  /\ UNCHANGED <<srvVars, brVars, ncut, pend, clVars>>

\* load_hierarchical_config of the bridge, for one key
BrLoadConfig ==
  /\ cfgIn.prog = "bridge" /\ cfgOut = Unset
  /\ cfgOut' = BrEffective(cfgIn.key, cfgIn.cli, cfgIn.file)
  /\ UNCHANGED <<cfgIn, stPc, stIn, stArgs, stLogs, stTemps, stFx, stCode>>
  /\ UNCHANGED <<srvVars, brVars, ncut, pend, clVars>>

\* parse_args of the client, for one key
ClLoadConfig ==
  /\ cfgIn.prog = "client" /\ cfgOut = Unset
  /\ cfgOut' = ClEffective(cfgIn.key, cfgIn.cli, cfgIn.file)
  /\ UNCHANGED <<cfgIn, stPc, stIn, stArgs, stLogs, stTemps, stFx, stCode>>
  /\ UNCHANGED <<srvVars, brVars, ncut, pend, clVars>>

(* ------------------------------------------------- main() of the server *)
\* main(): args = load_hierarchical_config()
StLoad ==
  /\ stPc = "load"
  /\ stArgs' = [k \in Keys |-> SrvEffective(stIn.plat, k, stIn.cli[k], stIn.file[k])]
  /\ stPc' = "names"
  /\ UNCHANGED <<stIn, stLogs, stTemps, stFx, stCode>>
  /\ UNCHANGED <<cfgIn, cfgOut, srvVars, brVars, ncut, pend, clVars>>

\* _rotate_logs: the oldest files are removed while there are max_files or more
RotateLogs(n, max_files) ==
  IF max_files <= 0 THEN n
  ELSE IF n >= max_files THEN max_files - 1 ELSE n

\* _get_log_filename(args.log, args.logmax), called before validate_args
StLogNames ==
  /\ stPc = "names"
  /\ LET n == IF stArgs["log"] # None /\ stArgs["logmax"].n # 0
              THEN RotateLogs(stLogs, stArgs["logmax"].n) ELSE stLogs
     IN  /\ stLogs' = n
         /\ stFx' = IF n # stLogs THEN stFx \cup {"log_deleted"} ELSE stFx
  /\ stPc' = "validate"
  /\ UNCHANGED <<stIn, stArgs, stTemps, stCode>>
  /\ UNCHANGED <<cfgIn, cfgOut, srvVars, brVars, ncut, pend, clVars>>

\* validate_args of the server, for the keys of this model; the other keys keep
\* their defaults, which pass
PortOk(a) == a["port"] # None /\ a["port"].n > 0 /\ a["port"].n <= 65535
ValidateArgs(a, plat) ==
  LET has_comport == a["comport"] # None
      has_namedpipe == a["namedpipe"] # None
  IN  /\ PortOk(a)
      /\ ~(has_comport /\ has_namedpipe)
      /\ has_comport \/ has_namedpipe
      /\ ~(has_namedpipe /\ plat # "win32")
      /\ a["keepalive"].n >= 0
      /\ ~(a["secauto"] = BoolV(TRUE) /\ a["sec"] # None)
      /\ a["logmax"].n >= 1
      /\ a["showtransfer"] = None \/ a["showtransfer"].s \in {"ascii,all", "hex,in"}

\* if not validate_args(args): sys.exit(1); the start messages of a valid
\* configuration go to the log file
StValidate ==
  /\ stPc = "validate"
  /\ IF ValidateArgs(stArgs, stIn.plat)
     THEN /\ stPc' = "ssl"
          /\ stLogs' = IF stArgs["log"] # None /\ stLogs = 0 THEN 1 ELSE stLogs
          /\ stFx' = IF stArgs["log"] # None THEN stFx \cup {"log_written"} ELSE stFx
          /\ UNCHANGED stCode
     ELSE /\ stPc' = "rejected"
          /\ stCode' = 1
          /\ UNCHANGED <<stLogs, stFx>>
  /\ UNCHANGED <<stIn, stArgs, stTemps>>
  /\ UNCHANGED <<cfgIn, cfgOut, srvVars, brVars, ncut, pend, clVars>>


\* the SSL setup of main(), which is before the try whose finally removes the
\* temporary files: the certificate cannot be generated, or the files are
\* written and load_cert_chain raises, or all of it succeeds
StSslSetup ==
  /\ stPc = "ssl"
  /\ IF stArgs["secauto"] = BoolV(TRUE)
     THEN \E o \in {"ok", "generate_fails", "load_fails"} :
            /\ stTemps' = IF o = "generate_fails" THEN stTemps
                           ELSE {"temp.crt", "temp.key"}
            /\ stFx' = IF o = "generate_fails" THEN stFx ELSE stFx \cup {"temp_written"}
            /\ stPc' = IF o = "ok" THEN "open" ELSE "ssl_failed"
            /\ stCode' = IF o = "ok" THEN stCode ELSE 1
     ELSE IF stArgs["sec"] # None
     THEN \E o \in {"ok", "load_fails"} :
            /\ stPc' = IF o = "ok" THEN "open" ELSE "ssl_failed"
            /\ stCode' = IF o = "ok" THEN stCode ELSE 1
            /\ UNCHANGED <<stTemps, stFx>>
     ELSE /\ stPc' = "open"
          /\ UNCHANGED <<stTemps, stFx, stCode>>
  /\ UNCHANGED <<stIn, stArgs, stLogs>>
  /\ UNCHANGED <<cfgIn, cfgOut, srvVars, brVars, ncut, pend, clVars>>

\* the first pass of while state.keep_running: the serial endpoint is opened and
\* the listening socket is bound
StOpen ==
  /\ stPc = "open"
  /\ stFx' = stFx \cup {"serial_open", "socket_bound"}
  /\ stPc' = "serving"
  /\ UNCHANGED <<stIn, stArgs, stLogs, stTemps, stCode>>
  /\ UNCHANGED <<cfgIn, cfgOut, srvVars, brVars, ncut, pend, clVars>>

\* the finally of main(), after the loop has seen keep_running false
StFinally ==
  /\ stPc = "serving"
  /\ stTemps' = {}
  /\ stPc' = "stopped"
  /\ UNCHANGED <<stIn, stArgs, stLogs, stFx, stCode>>
  /\ UNCHANGED <<cfgIn, cfgOut, srvVars, brVars, ncut, pend, clVars>>

(* ------------------------------------------ one key of one program resolved *)
ConfigInit ==
  /\ SrvInit /\ ~args.has_pwd /\ ~args.ctx
  /\ PeersOff /\ StOff
  /\ cfgIn \in {[prog |-> p, plat |-> pl, key |-> k, cli |-> c, file |-> f] :
                  p \in {"server", "bridge", "client"}, pl \in {"posix", "win32"},
                  k \in Keys, c \in {Absent, "5000", "70000", "set", "COM5"},
                  f \in FileTexts}
  /\ cfgIn.key \in ProgKeys(cfgIn.prog)
  /\ cfgIn.cli \in CliTexts(cfgIn.key)
  /\ cfgOut = Unset

ConfigNext == SrvLoadConfig \/ BrLoadConfig \/ ClLoadConfig

ConfigSpec == ConfigInit /\ [][ConfigNext]_vars

(* ------------------------------------- the server from its start to its exit *)
StartInit ==
  /\ SrvInit /\ ~args.has_pwd /\ ~args.ctx
  /\ PeersOff /\ CfgOff
  /\ stPc = "load"
  /\ stIn \in {[plat |-> pl,
                cli |-> [k \in Keys |-> CASE k = "port" -> p
                                          [] k = "comport" -> cp
                                          [] k = "namedpipe" -> np
                                          [] k = "secauto" -> sa
                                          [] k = "log" -> lg
                                          [] k = "logmax" -> lm
                                          [] OTHER -> Absent],
                file |-> [k \in Keys |-> CASE k = "port" -> fp
                                           [] k = "comport" -> fc
                                           [] OTHER -> Absent],
                logs |-> n] :
                 pl \in {"posix", "win32"}, p \in {Absent, "5000", "70000"},
                 cp \in {Absent, "COM5"}, np \in {Absent, "pipe1"},
                 sa \in {Absent, "set"}, lg \in {Absent, "srv"}, lm \in {Absent, "1"},
                 fp \in {Absent, "5000"}, fc \in {Absent, "COM5"}, n \in 0..MaxLogs}
  /\ stArgs = [k \in Keys |-> None]
  /\ stLogs = stIn.logs
  /\ stTemps = {} /\ stFx = {} /\ stCode = 0

StartNext == StLoad \/ StLogNames \/ StValidate \/ StSslSetup \/ StOpen \/ StFinally

StartSpec == StartInit /\ [][StartNext]_vars

(* ------------------------------------------------------------------ claims *)
IsPrefix(a, b) == Len(a) <= Len(b) /\ SubSeq(b, 1, Len(a)) = a

\* the bridge's serial bytes among what the server wrote to its serial endpoint
Delivered == SelectSeq(serIn, LAMBDA f : f \in BrDeviceFrags)

\* C1: in an authorized session the server writes to its serial endpoint, once
\* and in order, the bytes the bridge read from its serial endpoint and sent: what
\* is written is a prefix of what was sent, and all of it once the server has
\* read and handled everything in flight
C1_ByteTransparency ==
  (pcMain = "session" /\ b_state[total_sessions]) =>
     /\ IsPrefix(Delivered, brSent)
     /\ (c2s = <<>> /\ packet_buffer = <<>>) => Delivered = brSent

\* C2: no byte of a control frame reaches a serial endpoint: the server writes
\* only bytes of the bridge's serial endpoint, the bridge only bytes of the
\* server's
C2_NoControlOnSerial ==
  /\ \A i \in 1..Len(serIn) : serIn[i] \in BrDeviceFrags
  /\ \A i \in 1..Len(brSerOut) : brSerOut[i] \in DeviceFrags

\* the whole stream handled as one recv would handle it
WholeRead == SrvHandle(rcvd, [auth |-> NoPwd(args), buf |-> <<>>, ctype |-> "??"], args)

\* C8: what the session loop does with a stream does not depend on how recv cuts
\* it: once the stream is read, the serial bytes, the replies, the authorization
\* and the end of the session are those of the stream read at once, and the
\* stream A GETVER B KEEPALIVE C leaves A, B, C on the serial endpoint
C8_ChunkingIndependent ==
  (c2s = <<>> /\ rcvd # <<>>) =>
     /\ serIn = WholeRead.wr
     /\ s2c = HelloBytes \o WholeRead.send
     /\ b_state[1] = WholeRead.auth
     /\ (pcMain = "teardown") = (WholeRead.brk # "no")
     /\ (rcvd = S4Stream /\ ~args.has_pwd) => serIn = <<"A", "B", "C">>

\* a session is being served: the session loop runs or has just been left
InSession == pcMain \in {"session", "teardown"}
Authorized == b_state[total_sessions]
\* the configured password has come in a whole PWD frame, or is at least on its way
\* in one (the reading of "received" that favours the code)
GoodPwdSent == Contains(rcvd \o c2s, PwdFrame(args.pwd))
GoodPwdRcvd == Contains(rcvd, PwdFrame(args.pwd))
WrongPwdRcvd == Contains(rcvd, PwdFrame(LongPwd))

\* C3: with a password configured, as long as no PWD frame with the matching secret
\* has come from the peer, nothing the peer sent is written to the serial endpoint
\* and nothing read from the serial endpoint is sent to the peer
C3_PreAuthSilence ==
  (InSession /\ args.has_pwd /\ ~GoodPwdSent)
    => (serIn = <<>> /\ ~HasFrag(s2c, DeviceFrags))

\* C4: in a session the authorized flag is true iff no password is configured or a
\* PWD frame with the configured secret has been received
\* (a session is not held to be wrongly authorized while the frame is still arriving)
C4_AuthorizedIff ==
  (pcMain = "session") =>
     /\ Authorized => (NoPwd(args) \/ GoodPwdSent)
     /\ (NoPwd(args) \/ GoodPwdRcvd) => Authorized

\* C5: with a password configured, once a PWD frame with a wrong secret has been
\* received (and none with the right one), BADPWD has been sent, the session loop has
\* been left, the session is not authorized and no payload went either way
C5_WrongPwdRejected ==
  (InSession /\ args.has_pwd /\ WrongPwdRcvd /\ ~GoodPwdSent)
    => /\ pcMain = "teardown" /\ endReason = "badpwd"
       /\ Contains(s2c, BAD_PWD_MSG)
       /\ ~Authorized
       /\ serIn = <<>> /\ ~HasFrag(s2c, DeviceFrags)

\* the bytes the last recv returned
LastChunk == SubSeq(rcvd', Len(rcvd) + 1, Len(rcvd'))
PayloadOnly(d) == d # <<>> /\ \A i \in 1..Len(d) : d[i] \in PayloadFrags
\* the session loop of a password-protected, not yet authorized session reads payload
UnauthPayloadRead ==
  /\ pcMain = "session" /\ args.has_pwd /\ ~Authorized
  /\ rcvd' # rcvd /\ PayloadOnly(LastChunk)

C7_NoBadPwdWithoutPwd ==
  NoPwd(args) => (~Contains(s2c, BAD_PWD_MSG) /\ endReason # "badpwd")

\* C9: at most one accepted connection is open at any time, and none is open while
\* the server waits in accept
C9_OneConnection ==
  /\ Cardinality(conns) <= 1
  /\ pcMain = "accept" => conns = {}

\* a second peer has connected while the first session is served
C9_Witness == pcMain = "session" /\ backlog = 1 /\ conns = {1} /\ total_sessions = 1

SessionEnded == total_sessions > 0 /\ pcMain \in {"teardown", "recover", "looptop"}

\* C10: after a session has ended for any reason the server comes back to waiting for
\* a connection unless the stop flag is set, and the process stops only when the stop
\* flag is set
C10_Resumes ==
  /\ SessionEnded ~> (pcMain = "accept" \/ ~keep_running)
  /\ [](pcMain = "stopped" => ~keep_running)

\* the server waits again after a session that ended over a wrong password
C10_Witness ==
  pcMain = "accept" /\ keep_running /\ total_sessions = 1 /\ endReason = "badpwd"

(* ---------------------------------------------------------------- SIGINT *)
\* what the server sent in this step
SentNow == SubSeq(s2c', Len(s2c) + 1, Len(s2c'))

Idle == pcMain \in {"accept", "looptop", "recover"}
\* a step of the SIGINT handler: it sets one of the two flags
SigintStep ==
  \/ ~disconnect_requested /\ disconnect_requested'
  \/ keep_running /\ ~keep_running'

\* C12: a SIGINT that arrives while the server is not servicing a session
\* (accept loop, between two sessions, recovering) sets the stop flag.
C12_IdleSigintStops == [][(Idle /\ SigintStep) => ~keep_running']_vars

BrReadNow == SubSeq(s2c, brPos + 1, brPos')
BrSentNow == SubSeq(c2s', Len(c2s) + 1, Len(c2s'))

\* C17: a read of the bridge that holds GETVER is answered with BR_VER, and a
\* read that holds GET_KA_TIMEOUT is answered with MY_KA_TIMEOUT_<n>.
C17_RepliesToRequests ==
  [][(brPos' > brPos /\ bridge' = "run" /\ BrLinkUp)
       => /\ Contains(BrReadNow, GETVER_CMD) => Contains(BrSentNow, BR_VER_MSG)
          /\ Contains(BrReadNow, GET_KA_TIMEOUT_CMD) => HasFrag(BrSentNow, {"MY_KA_TIMEOUT_"})]_vars

\* C19: an authorized session that lasts keeps receiving KEEPALIVE frames
\* from the server.
C19_ServerKeepalive ==
  (pcMain = "session" /\ Authorized) ~> (pcMain # "session" \/ Contains(s2c, KEEPALIVE_CMD))

(* ------------------------------------------------- the session's replies *)
\* the data of this read: what was held back, then what recv returned
DataNow == packet_buffer \o LastChunk

RECURSIVE Count(_, _)
Count(d, lit) ==
  IF ~Contains(d, lit) THEN 0
  ELSE 1 + Count(SubSeq(d, FirstIndex(d, lit) + Len(lit), Len(d)), lit)

\* C16: in an authorized session every GETVER, ASK_COM_PARAMS and
\* GET_KA_TIMEOUT that was received has its reply, and a stream of KEEPALIVE
\* frames gets no reply and writes nothing to the serial endpoint.
C16_EveryRequestAnswered ==
  (c2s = <<>> /\ rcvd # <<>> /\ ~args.has_pwd /\ pcMain = "session") =>
     /\ Count(s2c, SRV_VER_MSG) = Count(rcvd, GETVER_CMD)
     /\ Count(s2c, SRV_KA_MSG) = Count(rcvd, GET_KA_TIMEOUT_CMD)
     /\ Count(s2c, SRV_PARAMS_MSG) >= Count(rcvd, ASK_CMD)
     /\ Count(rcvd, KEEPALIVE_CMD) * Len(KEEPALIVE_CMD) = Len(rcvd)
          => (serIn = <<>> /\ s2c = HelloBytes)

(* ------------------------------------------------------- the end of a session *)
\* C13: a read of the server that holds DISCONNECT ends its session loop, and
\* a client that has called shutdown() after reading DISCONNECT terminates
\* without any key being typed.
C13_DisconnectEnds ==
  /\ [][(rcvd' # rcvd /\ Contains(DataNow, DISCONNECT_CMD)) => pcMain' = "teardown"]_vars
  /\ (client = "run" /\ ~cl_keep_running /\ Contains(SubSeq(s2c, 1, clPos), DISCONNECT_CMD))
       ~> (client = "done")

\* C18: a bridge with a password configured sends its opening frames with
\* PWD_<x> right after its version frame, in every security mode.
C18_PwdInOpening ==
  [][(bridge # "run" /\ bridge' = "run" /\ brArgs.pwd # <<>>)
       => IsPrefix(BR_VER_MSG \o PwdFrame(brArgs.pwd), BrSentNow)]_vars

\* C20: outside the reset at the head of the accept loop, no step makes a
\* session counter of the server smaller.
C20_CountersMonotonic ==
  [][pcMain # "looptop"
       => /\ session_stats'.in >= session_stats.in
          /\ session_stats'.out >= session_stats.out]_vars

(* ------------------------------------------------------------ the counters *)
\* what the client read in this step
ClReadNow == SubSeq(s2c, clPos + 1, clPos')

\* C21: a read that holds nothing but control frames changes no counter: not
\* the server's session counters, not the client's recv_count.
C21_ControlNotCounted ==
  [][/\ (rcvd' # rcvd /\ StripFrames(DataNow) = <<>>) => session_stats' = session_stats
     /\ (clPos' > clPos /\ StripFrames(ClReadNow) = <<>>) => recv_count' = recv_count]_vars

\* C22: while a session is served and not authorized, its counters are 0.
C22_ZeroBeforeAuthorized ==
  (pcMain = "session" /\ ~Authorized) => session_stats = [in |-> 0, out |-> 0]

\* C23: once temp.crt and temp.key are written, the process never exits with
\* either of them left.
C23_TempFilesRemoved ==
  (Exited /\ "temp_written" \in stFx) => stTemps = {}

\* C24: a configuration rejected for its port exits with code 1 and nothing was
\* done: no log file touched, no socket bound, no serial endpoint opened.
C24_RejectedNoSideEffect ==
  (stPc = "rejected" /\ ~PortOk(stArgs)) =>
    (stCode = 1 /\ stFx = {} /\ stLogs = stIn.logs)

\* C25: the value of a key is the command line's when the option is given,
\* otherwise the file's when the file sets it to a text of the key's type,
\* otherwise the default. A key whose value is a text is compared as the text
\* the program makes of it.
C25_Precedence ==
  LET k == cfgIn.key
      f == IF cfgIn.prog = "client" THEN cfgIn.file ELSE CutComment(cfgIn.file)
      typed == CASE k \in IntKeys -> f \in DOMAIN IntOf
                 [] k \in BoolKeys -> f \in TrueTexts \cup FalseTexts
                 [] OTHER -> TRUE
      text(v) == CASE v.t = "int" -> CHOOSE d \in DOMAIN IntOf :
                                       IntOf[d] = v.n /\ \A e \in DOMAIN IntOf :
                                                           IntOf[e] = v.n => Len(d) <= Len(e)
                   [] v.t = "bool" -> IF v.n = 1 THEN "True" ELSE "False"
                   [] OTHER -> v.s
      fromFile == CASE k \in IntKeys -> IntV(IntOf[f])
                    [] k \in BoolKeys -> BoolV(f \in TrueTexts)
                    [] OTHER -> StrV(f)
      default == CASE cfgIn.prog = "server" -> SrvDefault(cfgIn.plat, k)
                   [] cfgIn.prog = "bridge" -> BrDefault(k)
                   [] OTHER -> ClDefault(k)
      expected == IF cfgIn.cli # Absent THEN CliValue(k, cfgIn.cli)
                  ELSE IF cfgIn.file # Absent THEN fromFile ELSE default
  IN  (cfgOut # Unset /\ (cfgIn.file = Absent \/ typed)) =>
        IF k \in IntKeys \cup BoolKeys \/ expected = None
        THEN cfgOut = expected
        ELSE cfgOut # None /\ text(cfgOut) = text(expected)

\* C26: on Windows, with a valid port, the server rejects a configuration only
\* when it gives both --comport and --namedpipe or neither; one that gives
\* --namedpipe alone is accepted.
C26_NamedPipeAlone ==
  LET gives(k) == stIn.cli[k] # Absent \/ stIn.file[k] # Absent
  IN  (stPc = "rejected" /\ stIn.plat = "win32" /\ PortOk(stArgs)) =>
        (gives("comport") <=> gives("namedpipe"))

\* C27: once the stop flag is set, the main thread of the server leaves its loops
\* and every relay thread ends.
C27_StopFlagStopsThreads ==
  (~keep_running) ~> (pcMain = "stopped" /\ relays = {})

\* C28: the buffer of a control frame that is not closed yet never holds more
\* than 512 bytes.
C28_HeldAtMost512 ==
  ByteLen(packet_buffer) <= 512

\* C29: when the relay thread of a session starts, no relay thread of an earlier
\* session is alive.
C29_RelayEndsWithSession ==
  [][relays' \ relays # {} => relays = {}]_vars

\* C30: a read of the serial endpoint that returns bytes is made with one relay
\* thread alive, and during a session with the peer connected the bytes are sent
\* on the connection.
C30_OneRelayReads ==
  [][ndev' > ndev =>
       /\ Cardinality(relays) <= 1
       /\ (pcMain = "session" /\ peer = "open") => Len(s2c') > Len(s2c)]_vars


\* C31: a pass of the bridge that reads nothing but payload while serial_ready
\* is set, in which no write raises and which does not end the session, writes
\* every byte of it to the serial endpoint.
C31_EveryByteWritten ==
  [][(/\ bridge = "run" /\ bridge' = "run"
      /\ brPos' > brPos
      /\ serial_ready
      /\ brLog' \cap FaultLogs = brLog \cap FaultLogs
      /\ \A i \in 1..Len(BrReadNow) : BrReadNow[i] \in {"p", "q"})
     => brSerOut' = brSerOut \o BrReadNow]_vars

\* C32: a pass of the bridge in which the write to the serial endpoint raises
\* ends the session: the main loop is left.
C32_WriteErrorEndsSession ==
  [][("write_error" \in brLog' /\ "write_error" \notin brLog)
     => (bridge' # "run" \/ ~br_keep_running')]_vars

\* C33: a pass of the bridge in which select, recv or sendall raises ends the
\* session: the main loop is left for cleanup.
C33_SocketErrorEndsSession ==
  [][("net_error" \in brLog' /\ "net_error" \notin brLog)
     => bridge' \in {"exit", "done"}]_vars

\* C34: a pass of the bridge that reads a whole MY_KA_TIMEOUT_<n> frame (and no
\* DISCONNECT) has the risk warning in the log exactly when n is larger than
\* the bridge's own --keepalive, and stays in the main loop.
C34_RiskWhenServerLarger ==
  [][(/\ bridge = "run" /\ brPos' > brPos
      /\ Contains(BrReadNow, SRV_KA_MSG)
      /\ ~Contains(BrReadNow, DISCONNECT_CMD))
     => /\ ("KA_RISK" \in brLog') <=> (IntOf[SRV_KA_MSG[5]] > brOpt.keepalive)
        /\ bridge' = "run"]_vars


\* C35: the authorized flag of a session never goes from true to false, and on
\* a server with --pwd every session enters its loop unauthorized, whatever
\* the sessions before it were.
C35_AuthorizedSticks ==
  [][/\ \A k \in Sessions : b_state[k] => b_state'[k]
     /\ (args.has_pwd /\ pcMain = "hello" /\ pcMain' = "session")
          => ~b_state'[total_sessions']]_vars

\* the second session of a server with --pwd is in its loop, unauthorized, after
\* a first session that was authorized
C35_Witness ==
  /\ args.has_pwd
  /\ total_sessions = 2 /\ pcMain = "session"
  /\ b_state[1] /\ ~b_state[2]


\* C36: on a server with --pwd, a COM_PARAMS frame of the server is on the
\* connection only if the session is authorized.
C36_ParamsAfterAuth ==
  (args.has_pwd /\ pcMain = "session" /\ Contains(s2c, SRV_PARAMS_MSG))
    => b_state[total_sessions]


\* C37: while a session of a server with --pwd is not authorized, the bridge
\* sends nothing it has read from its serial endpoint.
C37_SerialSentWhenAuthorized ==
  [][(args.has_pwd /\ pcMain = "session" /\ ~b_state[total_sessions])
     => brSent' = brSent]_vars


\* C38: a pass of the bridge writes to the serial endpoint only if a whole
\* COM_PARAMS frame of the server has been received by then, and a pass that
\* leaves serial_ready unset writes nothing and counts nothing.
C38_WriteOnlyAfterParams ==
  [][(bridge = "run" /\ brPos' > brPos)
     => /\ brSerOut' # brSerOut => Contains(SubSeq(s2c, 1, brPos'), SRV_PARAMS_MSG)
        /\ ~serial_ready' => (brSerOut' = brSerOut /\ out_count' = out_count)]_vars


\* C39: once the client has read, in whole reads, a stream of frames and text
\* that does not stop it, what it has written is the payload of the stream,
\* byte for byte: the stream without its frames.
C39_OutputIsPayload ==
  (/\ client = "run" /\ clRecv = "run"
   /\ ncut = 0 /\ clPos = Len(s2c)
   /\ ~HasFrag(s2c, {BadByte}))
    => clOut = SelectSeq(s2c, LAMBDA f : f \in {"x", LF})


\* C40: in a session of a bridge with the server, without SIGINT, the control
\* exchange ends: the server sends at most ten frames (its two requests, the
\* answers to the bridge's opening and to the BR_VER its GETVER is answered
\* with, and the frame that ends the session) and the bridge at most nine (its
\* opening and one answer to each GETVER, SRV_VER and ASK_COM_PARAMS), however
\* the reads are cut; and once each side has read all the other has sent, no
\* step puts another frame on the connection.
C40_ExchangeEnds ==
  [][/\ Count(s2c', OPEN) <= 10
     /\ Count(rcvd' \o c2s', OPEN) <= 9
     /\ (pcMain = "session" /\ bridge = "run" /\ c2s = <<>> /\ brPos = Len(s2c))
          => (Count(s2c', OPEN) = Count(s2c, OPEN) /\ Count(c2s', OPEN) = 0)]_vars

\* the bridge has sent its opening and all its answers, the server has read them
\* all and the bridge all of the server's, and the session is open
C40_Witness ==
  /\ pcMain = "session" /\ bridge = "run"
  /\ c2s = <<>> /\ brPos = Len(s2c)
  /\ Count(rcvd, OPEN) = 9
  /\ serial_ready

====
